---------------------------- MODULE Spec2Model ----------------------------
(***************************************************************************)
(* A model of coverage/sqldata.py: the CoverageData object (its in-memory  *)
(* attributes) together with the SQLite data file it manages (the rows of  *)
(* the tables of SCHEMA).  Every public method is an operator from a       *)
(* "store" (object attributes + database content) to the store after the   *)
(* call and the error the call raised, computed statement by statement as  *)
(* the Python code computes it.                                            *)
(***************************************************************************)
EXTENDS Integers, Sequences, FiniteSets, TLC

(***************************************************************************)
(* Bounds of the model and the inputs the actions draw from.               *)
(***************************************************************************)
MaxSteps == 5
MaxMergeSteps == 4

Paths == {"a.py", "b.py"}
Plugins == {"p", "q"}
None == "None"

Max(S) == CHOOSE x \in S : \A y \in S : y <= x
Min(S) == CHOOSE x \in S : \A y \in S : x <= y

\* The elements of a finite set of integers, in ascending order.
RECURSIVE Ascending(_)
Ascending(S) == IF S = {} THEN <<>> ELSE <<Min(S)>> \o Ascending(S \ {Min(S)})

Range(f) == {f[x] : x \in DOMAIN f}
Put(f, k, v) == [x \in DOMAIN f \cup {k} |-> IF x = k THEN v ELSE f[x]]
EmptyMap == [x \in {} |-> 0]

VARIABLES
    stores,     \* store name -> [obj: the CoverageData object, db: its data file]
    getpid,     \* os.getpid() of the running process
    last,       \* the last call: method, store, other store, argument, error raised
    hist,       \* store name -> what has been written through the object (history)
    steps,      \* the number of calls made so far
    threads     \* thread -> where it is in the call it makes on store A, and
                \* what it has of its own: its entry in _dbs, its locals

vars == <<stores, getpid, last, hist, steps, threads>>

(***************************************************************************)
(* coverage.numbits: a numbits blob is a byte string, bit k of byte i set  *)
(* when line 8*i+k is in the set.  A byte is modelled by the set of the    *)
(* positions of its 1 bits, the blob by the sequence of its bytes.         *)
(***************************************************************************)
nums_to_numbits(nums) ==
    IF nums = {} THEN <<>>
    ELSE LET nbytes == (Max(nums) \div 8) + 1
         IN  [i \in 1..nbytes |-> {n % 8 : n \in {m \in nums : m \div 8 = i - 1}}]

numbits_byte(numbits, i) == IF i <= Len(numbits) THEN numbits[i] ELSE {}

numbits_union(numbits1, numbits2) ==
    [i \in 1..(IF Len(numbits1) >= Len(numbits2) THEN Len(numbits1) ELSE Len(numbits2))
        |-> numbits_byte(numbits1, i) \cup numbits_byte(numbits2, i)]

numbits_to_nums(numbits) ==
    UNION {{8 * (i - 1) + k : k \in numbits[i]} : i \in 1..Len(numbits)}

(***************************************************************************)
(* The data file: the rows of the tables of SCHEMA.  exists is FALSE when  *)
(* there is no file (or no in-memory database yet); a database that exists *)
(* always has the schema, since _read_db creates it on the first open.     *)
(***************************************************************************)
NoDb == [exists |-> FALSE, meta |-> {}, file |-> {}, context |-> {},
         line_bits |-> {}, arc |-> {}, tracer |-> {}]

\* _init_db: executescript(SCHEMA) on a database that has no coverage_schema table.
_init_db == [NoDb EXCEPT !.exists = TRUE]

\* "id integer primary key": the rowid SQLite gives a row inserted without one.
NextRowid(rows) == IF rows = {} THEN 1 ELSE Max({r.id : r \in rows}) + 1

\* insert or replace into file (path) values (?): unique (path) deletes the old row.
InsertOrReplaceFile(db, path) ==
    LET id == NextRowid(db.file)
    IN  [db EXCEPT !.file = {r \in db.file : r.path # path} \cup {[id |-> id, path |-> path]}]

\* insert or ignore into file (path) values (?)
InsertOrIgnoreFile(db, path) ==
    IF \E r \in db.file : r.path = path THEN db
    ELSE [db EXCEPT !.file = db.file \cup {[id |-> NextRowid(db.file), path |-> path]}]

\* insert or ignore into context (context) values (?)
InsertOrIgnoreContext(db, context) ==
    IF \E r \in db.context : r.context = context THEN db
    ELSE [db EXCEPT !.context =
            db.context \cup {[id |-> NextRowid(db.context), context |-> context]}]

\* insert or ignore into meta (key, value) values (?, ?): unique (key)
InsertOrIgnoreMeta(db, key, value) ==
    IF \E r \in db.meta : r.key = key THEN db
    ELSE [db EXCEPT !.meta = db.meta \cup {[key |-> key, value |-> value]}]

\* A faulty variant, "insert or ignore into line_bits": the row already there
\* stays (C3 tells it from the statement of the code).
InsertOrIgnoreLineBits(db, file_id, context_id, numbits) ==
    IF \E r \in db.line_bits : r.file_id = file_id /\ r.context_id = context_id THEN db
    ELSE [db EXCEPT !.line_bits = db.line_bits \cup
            {[file_id |-> file_id, context_id |-> context_id, numbits |-> numbits]}]

\* insert or replace into line_bits: unique (file_id, context_id)
InsertOrReplaceLineBits(db, file_id, context_id, numbits) ==
    [db EXCEPT !.line_bits =
        {r \in db.line_bits : ~(r.file_id = file_id /\ r.context_id = context_id)}
        \cup {[file_id |-> file_id, context_id |-> context_id, numbits |-> numbits]}]

\* insert or ignore into arc: unique (file_id, context_id, fromno, tono)
InsertOrIgnoreArcs(db, rows) == [db EXCEPT !.arc = db.arc \cup rows]

\* insert or ignore into tracer: file_id is the primary key
InsertOrIgnoreTracer(db, file_id, tracer) ==
    IF \E r \in db.tracer : r.file_id = file_id THEN db
    ELSE [db EXCEPT !.tracer = db.tracer \cup {[file_id |-> file_id, tracer |-> tracer]}]

(***************************************************************************)
(* The CoverageData object.  A store is the object and its data file.      *)
(***************************************************************************)
\* The suffix argument: None, a literal string, or True, which asks for a
\* generated suffix.
SuffixTrue == "True"

\* filename_suffix: None and a string are returned as they are; True gives
\* "hostname.pid.Xrollsx", the six random letters being new on every call, so
\* that the suffixes generated in two processes differ.
filename_suffix(suffix, pid) ==
    IF suffix = SuffixTrue THEN [text |-> "hostname", pid |-> pid]
    ELSE [text |-> suffix, pid |-> 0]

\* CoverageData._choose_filename: the value of self._filename, the base name
\* and the suffix added to it.
_choose_filename(no_disk, suffix, pid) ==
    IF no_disk THEN [basename |-> ":memory:", suffix |-> filename_suffix(None, pid)]
    ELSE [basename |-> ".coverage", suffix |-> filename_suffix(suffix, pid)]

\* CoverageData.__init__: CoverageData(suffix=suffix, no_disk=no_disk) in
\* process pid.
CoverageData(suffix, no_disk, pid) ==
    [no_disk |-> no_disk,
     suffix |-> suffix,
     filename |-> _choose_filename(no_disk, suffix, pid),
     lock |-> [owner |-> None, count |-> 0],    \* threading.RLock()
     file_map |-> EmptyMap,
     dbs |-> FALSE,                 \* threading.get_ident() in self._dbs
     pid |-> pid,
     have_used |-> FALSE,
     has_lines |-> FALSE,
     has_arcs |-> FALSE,
     current_context |-> None,
     current_context_id |-> {},     \* {} is None, {id} is id
     query_context_ids |-> [set |-> FALSE, ids |-> {}]]

\* CoverageData.__init__ with the default suffix, None.
__init__(no_disk, pid) == CoverageData(None, no_disk, pid)

\* A store: the object and the data file its file name designates.
St(obj, db) == [obj |-> obj, db |-> db]
Res(obj, db, err) == [obj |-> obj, db |-> db, err |-> err]

\* os.path.exists(self._filename): ":memory:" is no file.
FileExists(s) == ~s.obj.no_disk /\ s.db.exists

\* CoverageData._reset
_reset(obj) ==
    [obj EXCEPT !.dbs = IF obj.no_disk THEN obj.dbs ELSE FALSE,
                !.file_map = EmptyMap,
                !.have_used = FALSE,
                !.current_context_id = {}]

\* _read_db once the meta and file tables are open: the has_arcs row sets the
\* mode, the file rows are put into _file_map.
ReadMeta(obj, db, row) ==
    [(IF row = {} THEN obj
      ELSE [obj EXCEPT !.has_arcs = (\E r \in row : r.value = "1"),
                       !.has_lines = ~(\E r \in row : r.value = "1")])
     EXCEPT !.file_map =
        [p \in DOMAIN obj.file_map \cup {r.path : r \in db.file} |->
            IF \E r \in db.file : r.path = p
            THEN (CHOOSE r \in db.file : r.path = p).id
            ELSE obj.file_map[p]]]

\* _read_db on database db: the schema is created when it is not there.
ReadDb(obj, db) == St(ReadMeta(obj, db, {r \in db.meta : r.key = "has_arcs"}), db)

\* CoverageData._read_db
_read_db(s) == ReadDb(s.obj, IF s.db.exists THEN s.db ELSE _init_db)

\* CoverageData._open_db
_open_db(s) == _read_db(St([s.obj EXCEPT !.dbs = TRUE], s.db))

\* CoverageData._connect
_connect(s) == IF ~s.obj.dbs THEN _open_db(s) ELSE s

\* CoverageData.erase (parallel=False)
erase(s) ==
    IF s.obj.no_disk THEN St(_reset(s.obj), s.db)
    ELSE St(_reset(s.obj), NoDb)

\* self._have_used = True
Used(s) == St([s.obj EXCEPT !.have_used = TRUE], s.db)

\* CoverageData.read
read(s) == IF FileExists(s) THEN Used(_connect(s)) ELSE s

\* The store of an object whose file name was chosen again: the same data
\* file under the same name, no file yet under a new name.
Renamed(s, obj) == St(obj, IF obj.filename = s.obj.filename THEN s.db ELSE NoDb)

\* "if self._pid != os.getpid()" of _start_using; getpid is the id of the
\* running process.
Forked(s) ==
    IF s.obj.pid # getpid
    THEN Renamed(s, [_reset(s.obj) EXCEPT
                        !.filename = _choose_filename(s.obj.no_disk, s.obj.suffix, getpid),
                        !.pid = getpid])
    ELSE s

\* "if not self._have_used: self.erase()" of _start_using
EraseUnused(s) == IF ~s.obj.have_used THEN erase(s) ELSE s

\* CoverageData._start_using
_start_using(s) == Used(EraseUnused(Forked(s)))


(***************************************************************************)
(* The write path.  A "with self._connect() as con" block is one           *)
(* transaction of the data file: it commits when the block is left         *)
(* normally and rolls back when an exception leaves it; nested blocks join *)
(* the outermost one.  The attributes of the object are plain Python state *)
(* and keep whatever the block assigned before the exception.              *)
(***************************************************************************)
Ok == "ok"
ModeConflicts == {"Can't add line measurements to existing branch data",
                  "Can't add branch measurements to existing line data",
                  "Can't combine arc data with line data",
                  "Can't combine line data with arc data"}
TracerConflict == "Conflicting file tracer name"
EmptyTouch == "Can't touch files in an empty CoverageData"
EmptyPurge == "Can't purge files in an empty CoverageData"
IntegrityError == "UNIQUE constraint failed: tracer.file_id"

\* CoverageData.set_context
set_context(s, context) ==
    Res([s.obj EXCEPT !.current_context = context, !.current_context_id = {}], s.db, Ok)

\* CoverageData._context_id: the ids of the rows of context named so (none or one).
_context_id(db, context) == {r.id : r \in {x \in db.context : x.context = context}}

\* _set_context_id on the connected store s for the context named context.
SetContextId(s, context, context_id) ==
    IF context_id # {}
    THEN St([s.obj EXCEPT !.current_context_id = context_id], s.db)
    ELSE St([s.obj EXCEPT !.current_context_id = {NextRowid(s.db.context)}],
            InsertOrIgnoreContext(s.db, context))

WithContext(s, context) == SetContextId(s, context, _context_id(s.db, context))

\* CoverageData._set_context_id
_set_context_id(s) ==
    WithContext(_connect(_start_using(s)),
                IF s.obj.current_context \in {None, ""} THEN "" ELSE s.obj.current_context)

\* "insert or replace into file" of _file_id and self._file_map[filename] = lastrowid
AddFile(s, filename) ==
    St([s.obj EXCEPT !.file_map = Put(s.obj.file_map, filename, NextRowid(s.db.file))],
       InsertOrReplaceFile(s.db, filename))

\* CoverageData._file_id: the store after the call; the id is then file_map.get(filename).
_file_id(s, filename, add) ==
    IF filename \notin DOMAIN s.obj.file_map /\ add THEN AddFile(_connect(s), filename) ELSE s

FileMapGet(obj, filename) ==
    IF filename \in DOMAIN obj.file_map THEN {obj.file_map[filename]} ELSE {}

\* A faulty variant of _choose_lines_or_arcs, its two tests exchanged: it
\* rejects the kind the store already has (C4 tells it from the code).
_choose_exchanged(s, lines, arcs) ==
    IF lines /\ s.obj.has_lines
    THEN Res(s.obj, s.db, "Can't add line measurements to existing branch data")
    ELSE IF arcs /\ s.obj.has_arcs
    THEN Res(s.obj, s.db, "Can't add branch measurements to existing line data")
    ELSE IF ~s.obj.has_arcs /\ ~s.obj.has_lines
    THEN LET s1 == _connect(St([s.obj EXCEPT !.has_lines = lines, !.has_arcs = arcs], s.db))
         IN  Res(s1.obj, InsertOrIgnoreMeta(s1.db, "has_arcs", IF arcs THEN "1" ELSE "0"), Ok)
    ELSE Res(s.obj, s.db, Ok)

\* A faulty variant of _choose_lines_or_arcs without its two tests: it accepts
\* both kinds (C5 tells it from the code).
_choose_unchecked(s, lines, arcs) ==
    IF ~s.obj.has_arcs /\ ~s.obj.has_lines
    THEN LET s1 == _connect(St([s.obj EXCEPT !.has_lines = lines, !.has_arcs = arcs], s.db))
         IN  Res(s1.obj, InsertOrIgnoreMeta(s1.db, "has_arcs", IF arcs THEN "1" ELSE "0"), Ok)
    ELSE Res(s.obj, s.db, Ok)

\* CoverageData._choose_lines_or_arcs
_choose_lines_or_arcs(s, lines, arcs) ==
    IF lines /\ s.obj.has_arcs
    THEN Res(s.obj, s.db, "Can't add line measurements to existing branch data")
    ELSE IF arcs /\ s.obj.has_lines
    THEN Res(s.obj, s.db, "Can't add branch measurements to existing line data")
    ELSE IF ~s.obj.has_arcs /\ ~s.obj.has_lines
    THEN LET s1 == _connect(St([s.obj EXCEPT !.has_lines = lines, !.has_arcs = arcs], s.db))
         IN  Res(s1.obj, InsertOrIgnoreMeta(s1.db, "has_arcs", IF arcs THEN "1" ELSE "0"), Ok)
    ELSE Res(s.obj, s.db, Ok)

\* The select and the "insert or replace into line_bits" of add_lines for one
\* file, with the row found by the select.
add_lines_row(s, file_id, context_id, line_bits, existing) ==
    St(s.obj,
       InsertOrReplaceLineBits(s.db, file_id, context_id,
           IF existing # {}
           THEN numbits_union(line_bits, (CHOOSE r \in existing : TRUE).numbits)
           ELSE line_bits))

\* One pass of the loop of add_lines, after self._file_id(filename, add=True).
add_lines_item(s, filename, line_bits) ==
    add_lines_row(s, s.obj.file_map[filename], CHOOSE c \in s.obj.current_context_id : TRUE,
                  line_bits,
                  {r \in s.db.line_bits : /\ r.file_id = s.obj.file_map[filename]
                                          /\ {r.context_id} = s.obj.current_context_id})

\* The loop of add_lines, from item i of line_data on.
RECURSIVE add_lines_loop(_, _, _)
add_lines_loop(s, line_data, i) ==
    IF i > Len(line_data) THEN s
    ELSE add_lines_loop(add_lines_item(_file_id(s, line_data[i].file, TRUE), line_data[i].file,
                                       nums_to_numbits(line_data[i].nums)),
                        line_data, i + 1)

\* The method is left normally from store s.
Returned(s) == Res(s.obj, s.db, Ok)

\* add_lines after self._choose_lines_or_arcs(lines=True) has given r.
add_lines_chosen(r, line_data) ==
    IF r.err # Ok THEN r
    ELSE IF line_data = <<>> THEN r
    ELSE Returned(add_lines_loop(_set_context_id(_connect(St(r.obj, r.db))), line_data, 1))

\* CoverageData.add_lines; line_data is the mapping as the sequence of its items.
add_lines(s, line_data) ==
    add_lines_chosen(_choose_lines_or_arcs(_start_using(s), TRUE, FALSE), line_data)

\* One pass of the loop of add_arcs, after self._file_id(filename, add=True).
add_arcs_item(s, filename, arcs_) ==
    St(s.obj,
       InsertOrIgnoreArcs(s.db,
           {[file_id |-> s.obj.file_map[filename],
             context_id |-> CHOOSE c \in s.obj.current_context_id : TRUE,
             fromno |-> a[1], tono |-> a[2]] : a \in arcs_}))

\* The loop of add_arcs, from item i of arc_data on.
RECURSIVE add_arcs_loop(_, _, _)
add_arcs_loop(s, arc_data, i) ==
    IF i > Len(arc_data) THEN s
    ELSE IF arc_data[i].arcs = {} THEN add_arcs_loop(s, arc_data, i + 1)
    ELSE add_arcs_loop(add_arcs_item(_file_id(s, arc_data[i].file, TRUE), arc_data[i].file,
                                     arc_data[i].arcs),
                       arc_data, i + 1)

\* add_arcs after self._choose_lines_or_arcs(arcs=True) has given r.
add_arcs_chosen(r, arc_data) ==
    IF r.err # Ok THEN r
    ELSE IF arc_data = <<>> THEN r
    ELSE Returned(add_arcs_loop(_set_context_id(_connect(St(r.obj, r.db))), arc_data, 1))

\* CoverageData.add_arcs; arc_data is the mapping as the sequence of its items.
add_arcs(s, arc_data) ==
    add_arcs_chosen(_choose_lines_or_arcs(_start_using(s), FALSE, TRUE), arc_data)

\* What file_tracer returns: None, "" or the plugin name (see file_tracer below).
FileTracerOf(s, filename) ==
    IF filename \notin DOMAIN s.obj.file_map THEN None
    ELSE LET row == {r \in s.db.tracer : r.file_id = s.obj.file_map[filename]}
         IN  IF row # {} THEN (CHOOSE r \in row : TRUE).tracer ELSE ""

\* file_tracer on the connected store s.
FileTracerRet(s, filename) ==
    [obj |-> s.obj, db |-> s.db, err |-> Ok, ret |-> FileTracerOf(s, filename)]

\* CoverageData.file_tracer: the store after the call and what the call returns.
file_tracer(s, filename) == FileTracerRet(_connect(_start_using(s)), filename)

\* The loop of add_file_tracers inside its transaction, from item i on: the
\* store the loop has reached and the error that ended it.
RECURSIVE add_file_tracers_loop(_, _, _)

\* One pass of the loop, after file_id = self._file_id(filename, add=True) and
\* existing_plugin = self.file_tracer(filename) have given t.
add_file_tracers_item(t, file_tracers, i, file_id, plugin_name) ==
    IF t.ret # ""
    THEN IF t.ret # plugin_name
         THEN Res(t.obj, t.db, TracerConflict)
         ELSE add_file_tracers_loop(St(t.obj, t.db), file_tracers, i + 1)
    ELSE IF plugin_name # ""
    THEN IF \E r \in t.db.tracer : r.file_id = file_id
         THEN Res(t.obj, t.db, IntegrityError)
         ELSE add_file_tracers_loop(
                St(t.obj, [t.db EXCEPT !.tracer =
                      t.db.tracer \cup {[file_id |-> file_id, tracer |-> plugin_name]}]),
                file_tracers, i + 1)
    ELSE add_file_tracers_loop(St(t.obj, t.db), file_tracers, i + 1)

\* ... with the file_id taken from _file_map.
add_file_tracers_found(t, file_tracers, i) ==
    add_file_tracers_item(t, file_tracers, i, t.obj.file_map[file_tracers[i].file],
                          file_tracers[i].plugin)

add_file_tracers_loop(s, file_tracers, i) ==
    IF i > Len(file_tracers) THEN Res(s.obj, s.db, Ok)
    ELSE add_file_tracers_found(
             file_tracer(_file_id(s, file_tracers[i].file, TRUE), file_tracers[i].file),
             file_tracers, i)

\* add_file_tracers up to the end of its "with" block, the transaction still open.
add_file_tracers_body(s, file_tracers) ==
    IF file_tracers = <<>> THEN Res(s.obj, s.db, Ok)
    ELSE add_file_tracers_loop(_connect(_start_using(s)), file_tracers, 1)

\* The end of an outermost "with self._connect()" block entered with database
\* begin: commit when the block ended normally, roll back when it raised.
Transaction(begin, r) == IF r.err = Ok THEN r ELSE Res(r.obj, begin, r.err)

\* add_file_tracers as the outermost "with" block, entered on the connected store s.
add_file_tracers_block(s, file_tracers) ==
    Transaction(s.db, add_file_tracers_body(s, file_tracers))

\* CoverageData.add_file_tracers; file_tracers is the mapping as the sequence of its items.
add_file_tracers(s, file_tracers) ==
    IF file_tracers = <<>> THEN Res(s.obj, s.db, Ok)
    ELSE add_file_tracers_block(_connect(_start_using(s)), file_tracers)

\* The loop of touch_files, from item i of filenames on.
RECURSIVE touch_files_loop(_, _, _, _)

\* The loop after self.add_file_tracers({filename: plugin_name}) has given r.
touch_files_traced(r, filenames, plugin_name, i) ==
    IF r.err # Ok THEN r ELSE touch_files_loop(St(r.obj, r.db), filenames, plugin_name, i + 1)

\* One pass of the loop, after self._file_id(filename, add=True).
touch_files_item(s, filenames, plugin_name, i) ==
    IF plugin_name \notin {None, ""}
    THEN touch_files_traced(
             add_file_tracers_body(s, <<[file |-> filenames[i], plugin |-> plugin_name]>>),
             filenames, plugin_name, i)
    ELSE touch_files_loop(s, filenames, plugin_name, i + 1)

touch_files_loop(s, filenames, plugin_name, i) ==
    IF i > Len(filenames) THEN Res(s.obj, s.db, Ok)
    ELSE touch_files_item(_file_id(s, filenames[i], TRUE), filenames, plugin_name, i)

\* The "with self._connect()" block of touch_files, entered on the connected store s.
touch_files_block(s, filenames, plugin_name) ==
    IF ~s.obj.has_arcs /\ ~s.obj.has_lines
    THEN Res(s.obj, s.db, EmptyTouch)
    ELSE Transaction(s.db, touch_files_loop(s, filenames, plugin_name, 1))

\* CoverageData.touch_files
touch_files(s, filenames, plugin_name) ==
    touch_files_block(_connect(_start_using(s)), filenames, plugin_name)

\* The loop of purge_files, from item i of filenames on.
RECURSIVE purge_files_loop(_, _, _)
purge_files_loop(s, filenames, i) ==
    IF i > Len(filenames) THEN s
    ELSE LET file_id == FileMapGet(s.obj, filenames[i])
         IN  IF file_id = {} THEN purge_files_loop(s, filenames, i + 1)
             ELSE purge_files_loop(
                    St(s.obj,
                       IF s.obj.has_lines
                       THEN [s.db EXCEPT !.line_bits = {r \in s.db.line_bits : r.file_id \notin file_id}]
                       ELSE [s.db EXCEPT !.arc = {r \in s.db.arc : r.file_id \notin file_id}]),
                    filenames, i + 1)

\* The "with self._connect()" block of purge_files, entered on the connected store s.
purge_files_block(s, filenames) ==
    IF ~s.obj.has_lines /\ ~s.obj.has_arcs
    THEN Res(s.obj, s.db, EmptyPurge)
    ELSE Returned(purge_files_loop(s, filenames, 1))

\* CoverageData.purge_files
purge_files(s, filenames) == purge_files_block(_connect(_start_using(s)), filenames)


(***************************************************************************)
(* The merge engine.                                                       *)
(***************************************************************************)
\* The rows of a table with an id column, in rowid order (the order of a select).
RowsInOrder(rows) ==
    LET ids == Ascending({r.id : r \in rows})
    IN  [i \in 1..Len(ids) |-> CHOOSE r \in rows : r.id = ids[i]]

\* "from T inner join file on file.id = T.file_id": the rows of T with their path.
JoinFile(db, rows) ==
    UNION {{[row |-> r, path |-> f.path] : f \in {x \in db.file : x.id = r.file_id}} :
              r \in rows}

\* ... "inner join context on context.id = T.context_id" as well.
JoinFileContext(db, rows) ==
    UNION {{[row |-> j.row, path |-> j.path, context |-> c.context] :
                c \in {x \in db.context : x.id = j.row.context_id}} :
              j \in JoinFile(db, rows)}

\* {key(row): tracer for row in cursor}: a later row (a larger file_id) replaces
\* an earlier one with the same key.
TracerDict(db, map_path) ==
    LET joined == JoinFile(db, db.tracer)
        keys == {map_path[j.path] : j \in joined}
    IN  [k \in keys |->
            LET of == {j \in joined : map_path[j.path] = k}
            IN  (CHOOSE j \in of : \A x \in of : x.row.file_id <= j.row.file_id).row.tracer]

RECURSIVE UnionNumbits(_)
UnionNumbits(S) ==
    LET b == CHOOSE x \in S : TRUE
    IN  IF S = {b} THEN b ELSE numbits_union(UnionNumbits(S \ {b}), b)

RECURSIVE InsertFiles(_, _, _)
InsertFiles(db, paths, i) ==
    IF i > Len(paths) THEN db ELSE InsertFiles(InsertOrIgnoreFile(db, paths[i]), paths, i + 1)

RECURSIVE InsertContexts(_, _, _)
InsertContexts(db, contexts, i) ==
    IF i > Len(contexts) THEN db
    ELSE InsertContexts(InsertOrIgnoreContext(db, contexts[i]), contexts, i + 1)

RECURSIVE InsertTracers(_, _, _)
InsertTracers(db, file_ids, tracer_map) ==
    IF DOMAIN tracer_map = {} THEN db
    ELSE LET path == CHOOSE x \in DOMAIN tracer_map : TRUE
         IN  InsertTracers(InsertOrIgnoreTracer(db, file_ids[path], tracer_map[path]), file_ids,
                           [x \in DOMAIN tracer_map \ {path} |-> tracer_map[x]])

RECURSIVE MergeLines(_, _, _, _)
MergeLines(db, file_ids, context_ids, lines) ==
    IF DOMAIN lines = {} THEN db
    ELSE LET key == CHOOSE x \in DOMAIN lines : TRUE
             existing == {r \in db.line_bits : /\ r.file_id = file_ids[key[1]]
                                                /\ r.context_id = context_ids[key[2]]}
             numbits == IF existing # {}
                        THEN numbits_union(lines[key], (CHOOSE r \in existing : TRUE).numbits)
                        ELSE lines[key]
         IN  MergeLines(InsertOrReplaceLineBits(db, file_ids[key[1]], context_ids[key[2]], numbits),
                        file_ids, context_ids, [x \in DOMAIN lines \ {key} |-> lines[x]])

\* What update reads from other_data inside "with other_data._connect() as con".
ReadOther(db, map_path) ==
    LET rows == RowsInOrder(db.file)
        crows == RowsInOrder(db.context)
        ljoin == JoinFileContext(db, db.line_bits)
        lkeys == {<<map_path[j.path], j.context>> : j \in ljoin}
    IN  [files |-> [i \in 1..Len(rows) |-> map_path[rows[i].path]],
         contexts |-> [i \in 1..Len(crows) |-> crows[i].context],
         arcs |-> {[file |-> map_path[j.path], context |-> j.context,
                    fromno |-> j.row.fromno, tono |-> j.row.tono] :
                        j \in JoinFileContext(db, db.arc)},
         lines |-> [k \in lkeys |->
                      UnionNumbits({j.row.numbits :
                          j \in {x \in ljoin : <<map_path[x.path], x.context>> = k}})],
         tracers |-> TracerDict(db, map_path)]

\* this_tracers: "" for every file of this store, then the tracer rows of this
\* store under map_path(path).
ThisTracers(db, remapped) ==
    [path \in {r.path : r \in db.file} \cup DOMAIN remapped |->
        IF path \in DOMAIN remapped THEN remapped[path] ELSE ""]

\* file_ids = {path: id for id, path in "select id, path from file"}
FileIds(db) ==
    [path \in {r.path : r \in db.file} |-> (CHOOSE r \in db.file : r.path = path).id]

\* context_ids = {context: id for id, context in "select id, context from context"}
ContextIds(db) ==
    [c \in {r.context : r \in db.context} |-> (CHOOSE r \in db.context : r.context = c).id]

\* self._file_map.update(file_ids)
FileMapUpdate(obj, file_ids) ==
    [obj EXCEPT !.file_map =
        [path \in DOMAIN obj.file_map \cup DOMAIN file_ids |->
            IF path \in DOMAIN file_ids THEN file_ids[path] ELSE obj.file_map[path]]]

\* other_tracer = tracers.get(path, "")
OtherTracer(tracers, path) == IF path \in DOMAIN tracers THEN tracers[path] ELSE ""

\* The arc rows update inserts once _choose_lines_or_arcs(arcs=True) returned c.
update_arcs_rows(c, in, file_ids, context_ids) ==
    IF c.err # Ok THEN c
    ELSE Res(c.obj,
             InsertOrIgnoreArcs(c.db,
                 {[file_id |-> file_ids[a.file], context_id |-> context_ids[a.context],
                   fromno |-> a.fromno, tono |-> a.tono] : a \in in.arcs}),
             Ok)

\* "if arcs: self._choose_lines_or_arcs(arcs=True) ..." of update
update_arcs(s, in, file_ids, context_ids) ==
    IF in.arcs # {}
    THEN update_arcs_rows(_choose_lines_or_arcs(s, FALSE, TRUE), in, file_ids, context_ids)
    ELSE Res(s.obj, s.db, Ok)

\* The line rows update writes once _choose_lines_or_arcs(lines=True) returned c.
update_lines_rows(c, in, file_ids, context_ids) ==
    IF c.err # Ok THEN c
    ELSE Res(c.obj, MergeLines(c.db, file_ids, context_ids, in.lines), Ok)

\* "if lines: self._choose_lines_or_arcs(lines=True) ..." of update, reached
\* with result r of the arcs part.
update_lines(r, in, file_ids, context_ids) ==
    IF r.err # Ok \/ DOMAIN in.lines = {} THEN r
    ELSE update_lines_rows(_choose_lines_or_arcs(St(r.obj, r.db), TRUE, FALSE),
                           in, file_ids, context_ids)

\* The last statement of the block: the tracer rows of tracer_map.
update_tracers(r, in, file_ids) ==
    IF r.err # Ok THEN r
    ELSE Res(r.obj,
             InsertTracers(r.db, file_ids,
                 [path \in Range(in.files) |-> OtherTracer(in.tracers, path)]),
             Ok)

\* The block from the tracer check on; s has the file and context rows and the
\* updated _file_map.
update_checked(s, in, this_tracers, file_ids, context_ids) ==
    IF \E path \in Range(in.files) :
          /\ path \in DOMAIN this_tracers
          /\ this_tracers[path] # OtherTracer(in.tracers, path)
    THEN Res(s.obj, s.db, TracerConflict)
    ELSE update_tracers(
             update_lines(update_arcs(s, in, file_ids, context_ids),
                          in, file_ids, context_ids),
             in, file_ids)

\* The block from "self._file_map.update(file_ids)" on; db has the file and
\* context rows inserted.
update_inserted(obj, db, in, this_tracers) ==
    update_checked(St(FileMapUpdate(obj, FileIds(db)), db), in, this_tracers,
                   FileIds(db), ContextIds(db))

\* The "with self._connect() as con" block of update: the store it has reached
\* (the transaction still open) and the error that ended it.
update_body(s, in, map_path) ==
    update_inserted(s.obj,
                    InsertContexts(InsertFiles(s.db, in.files, 1), in.contexts, 1),
                    in, ThisTracers(s.db, TracerDict(s.db, map_path)))

\* The end of update: r is the result of the block, o1 is other_data as read.
update_end(r, o1) ==
    IF r.err # Ok THEN [self |-> St(r.obj, r.db), other |-> o1, err |-> r.err]
    ELSE IF ~r.obj.no_disk
    THEN [self |-> read(St(_reset(r.obj), r.db)), other |-> o1, err |-> Ok]
    ELSE [self |-> St(r.obj, r.db), other |-> o1, err |-> Ok]

\* update once self._start_using() gave s1 and other_data was read and
\* connected as o1; s2 is self._connect().
update_connected(s2, o1, map_path) ==
    update_end(Transaction(s2.db, update_body(s2, ReadOther(o1.db, map_path), map_path)), o1)

\* A faulty variant of update that calls other_data._start_using() in the
\* place of other_data.read() (C30 tells it from the code).
update_using_other(s, other_data, map_path) ==
    IF s.obj.has_lines /\ other_data.obj.has_arcs
    THEN [self |-> s, other |-> other_data, err |-> "Can't combine arc data with line data"]
    ELSE IF s.obj.has_arcs /\ other_data.obj.has_lines
    THEN [self |-> s, other |-> other_data, err |-> "Can't combine line data with arc data"]
    ELSE update_connected(_connect(_start_using(s)), _connect(_start_using(other_data)),
                          map_path)

\* CoverageData.update: this store and other_data after the call, and the error.
update(s, other_data, map_path) ==
    IF s.obj.has_lines /\ other_data.obj.has_arcs
    THEN [self |-> s, other |-> other_data, err |-> "Can't combine arc data with line data"]
    ELSE IF s.obj.has_arcs /\ other_data.obj.has_lines
    THEN [self |-> s, other |-> other_data, err |-> "Can't combine line data with arc data"]
    ELSE update_connected(_connect(_start_using(s)), _connect(read(other_data)), map_path)

(***************************************************************************)
(* The query path.  Each operator gives the store after the call and, as   *)
(* ret, what the call returns; lists are returned as sets.                 *)
(***************************************************************************)
Ret(s, ret) == [obj |-> s.obj, db |-> s.db, err |-> Ok, ret |-> ret]
NotMeasured == [measured |-> FALSE, data |-> {}]
Measured(data) == [measured |-> TRUE, data |-> data]

\* CoverageData.has_arcs
has_arcs(s) == s.obj.has_arcs

\* __bool__ on the connected store: "select * from file limit 1" gives a row.
HasFileRow(s) == Ret(s, s.db.file # {})

\* CoverageData.__bool__
__bool__(s) ==
    IF ~s.obj.dbs /\ ~FileExists(s) THEN Ret(s, FALSE)
    ELSE HasFileRow(_connect(s))

\* CoverageData.measured_files
measured_files(s) == DOMAIN s.obj.file_map

\* CoverageData.measured_contexts
measured_contexts(s) ==
    LET s1 == _connect(_start_using(s)) IN Ret(s1, {r.context : r \in s1.db.context})

\* CoverageData.set_query_context
set_query_context(s, context) ==
    LET s1 == _connect(_start_using(s))
    IN  Res([s1.obj EXCEPT !.query_context_ids =
                [set |-> TRUE, ids |-> _context_id(s1.db, context)]], s1.db, Ok)

\* "and context_id in (...)" when self._query_context_ids is not None
InQueryContexts(obj, context_id) ==
    obj.query_context_ids.set => context_id \in obj.query_context_ids.ids

\* CoverageData.arcs
arcs(s, filename) ==
    LET s1 == _connect(_start_using(s))
        file_id == FileMapGet(s1.obj, filename)
    IN  IF file_id = {} THEN Ret(s1, NotMeasured)
        ELSE Ret(s1, Measured({<<r.fromno, r.tono>> :
                    r \in {x \in s1.db.arc : /\ x.file_id \in file_id
                                             /\ InQueryContexts(s1.obj, x.context_id)}}))

\* CoverageData.lines
lines(s, filename) ==
    LET s1 == _start_using(s)
        a == arcs(s1, filename)
        s2 == _connect(s1)
        file_id == FileMapGet(s2.obj, filename)
    IN  IF has_arcs(s1) /\ a.ret.measured
        THEN Ret(a, Measured({l \in UNION {{x[1], x[2]} : x \in a.ret.data} : l > 0}))
        ELSE IF file_id = {} THEN Ret(s2, NotMeasured)
        ELSE Ret(s2, Measured(UNION {numbits_to_nums(r.numbits) :
                        r \in {x \in s2.db.line_bits : /\ x.file_id \in file_id
                                                      /\ InQueryContexts(s2.obj, x.context_id)}}))


\* The characters of the context names and patterns in use.
Chars(string) ==
    CASE string = "" -> <<>>
      [] string = "t" -> <<"t">>
      [] string = "u" -> <<"u">>
      [] string = "ut" -> <<"u", "t">>

\* The REGEXP function of the connection, re.search(pattern, text) is not None,
\* for patterns without metacharacters: pattern occurs somewhere in text.
regexp(pattern, text) ==
    \E i \in 0..(Len(Chars(text)) - Len(Chars(pattern))) :
        SubSeq(Chars(text), i + 1, i + Len(Chars(pattern))) = Chars(pattern)

\* A faulty variant of the query of set_query_contexts, "context = ?" in the
\* place of "context regexp ?" (C12 tells it from the query of the code).
ContextIdsNamed(db, contexts) ==
    {r.id : r \in {x \in db.context : \E i \in 1..Len(contexts) : contexts[i] = x.context}}

\* "select id from context where context regexp ? or ..." of set_query_contexts
MatchingContextIds(db, contexts) ==
    {r.id : r \in {x \in db.context :
                     \E i \in 1..Len(contexts) : regexp(contexts[i], x.context)}}

\* The argument of set_query_contexts: None, or a list of patterns.
NoPatterns == [is_none |-> TRUE, list |-> <<>>]
Patterns(list) == [is_none |-> FALSE, list |-> list]

\* "with self._connect() as con: ..." of set_query_contexts, on the connected store
QueryContextsSet(s, list) ==
    Res([s.obj EXCEPT !.query_context_ids =
            [set |-> TRUE, ids |-> MatchingContextIds(s.db, list)]], s.db, Ok)

\* set_query_contexts on the store in use: "if contexts:" is false for None
\* and for the empty list.
QueryContextsChosen(s, contexts) ==
    IF ~contexts.is_none /\ contexts.list # <<>>
    THEN QueryContextsSet(_connect(s), contexts.list)
    ELSE Res([s.obj EXCEPT !.query_context_ids = [set |-> FALSE, ids |-> {}]], s.db, Ok)

\* CoverageData.set_query_contexts
set_query_contexts(s, contexts) == QueryContextsChosen(_start_using(s), contexts)

\* "from arc, context where arc.file_id = ? and arc.context_id = context.id"
\* (and the same for line_bits), with the query contexts: (row, context row) pairs.
JoinContext(s, rows, file_id) ==
    {j \in rows \X s.db.context :
        /\ j[1].file_id \in file_id
        /\ j[1].context_id = j[2].id
        /\ InQueryContexts(s.obj, j[1].context_id)}

\* The (lineno, context) pairs of contexts_by_lineno when the file has id file_id.
ContextsByLineno(s, file_id) ==
    IF has_arcs(s)
    THEN UNION {{<<l, j[2].context>> : l \in {x \in {j[1].fromno, j[1].tono} : x > 0}} :
                j \in JoinContext(s, s.db.arc, file_id)}
    ELSE UNION {{<<l, j[2].context>> : l \in numbits_to_nums(j[1].numbits)} :
                j \in JoinContext(s, s.db.line_bits, file_id)}

\* contexts_by_lineno on the connected store: the dict as a set of
\* (lineno, context) pairs, empty for a file that is not measured.
ContextsByLinenoOf(s, filename) ==
    IF FileMapGet(s.obj, filename) = {} THEN Ret(s, {})
    ELSE Ret(s, ContextsByLineno(s, FileMapGet(s.obj, filename)))

\* CoverageData.contexts_by_lineno
contexts_by_lineno(s, filename) == ContextsByLinenoOf(_connect(_start_using(s)), filename)


(***************************************************************************)
(* Serialization.  The bytes of dumps are the marker b"z" and the          *)
(* compressed SQL script of the database; the script is, per table, the    *)
(* value tuples of its INSERT statements.                                  *)
(***************************************************************************)
SerializationError == "Unrecognized serialization"
OperationalError == "table coverage_schema already exists"

\* con.dump(): the INSERT statements of every table of the schema.
dump(db) ==
    [meta |-> {<<r.key, r.value>> : r \in db.meta},
     file |-> {<<r.id, r.path>> : r \in db.file},
     context |-> {<<r.id, r.context>> : r \in db.context},
     line_bits |-> {<<r.file_id, r.context_id, r.numbits>> : r \in db.line_bits},
     arc |-> {<<r.file_id, r.context_id, r.fromno, r.tono>> : r \in db.arc},
     tracer |-> {<<r.file_id, r.tracer>> : r \in db.tracer}]

\* db.executescript(script) on a database without tables.
executescript(script) ==
    [exists |-> TRUE,
     meta |-> {[key |-> v[1], value |-> v[2]] : v \in script.meta},
     file |-> {[id |-> v[1], path |-> v[2]] : v \in script.file},
     context |-> {[id |-> v[1], context |-> v[2]] : v \in script.context},
     line_bits |-> {[file_id |-> v[1], context_id |-> v[2], numbits |-> v[3]] :
                      v \in script.line_bits},
     arc |-> {[file_id |-> v[1], context_id |-> v[2], fromno |-> v[3], tono |-> v[4]] :
                v \in script.arc},
     tracer |-> {[file_id |-> v[1], tracer |-> v[2]] : v \in script.tracer}]

\* b"z" + zlib.compress(script.encode("utf-8"))
Bytes(marker, script) == [marker |-> marker, script |-> script]

\* "with self._connect() as con: ..." of dumps, on the connected store
Dumped(s) == Ret(s, Bytes("z", dump(s.db)))

\* CoverageData.dumps
dumps(s) == Dumped(_connect(s))

\* The database SqliteDb(self._filename) opens: a new one for ":memory:", the
\* data file otherwise.
Opened(s) == IF s.obj.no_disk THEN NoDb ELSE s.db

\* loads after the marker test, with the new connection in self._dbs: the
\* script runs, then _read_db and self._have_used = True.  CREATE TABLE fails
\* in a data file that has the tables.
loads_script(obj, db, script) ==
    IF db.exists THEN Res(obj, db, OperationalError)
    ELSE Returned(Used(ReadDb(obj, executescript(script))))

\* A faulty variant of loads that replaces the connection and runs the script
\* without looking at the marker (C15 tells it from the code).
loads_unchecked(s, data) ==
    loads_script([s.obj EXCEPT !.dbs = TRUE], Opened(s), data.script)

\* CoverageData.loads
loads(s, data) ==
    IF data.marker # "z" THEN Res(s.obj, s.db, SerializationError)
    ELSE loads_script([s.obj EXCEPT !.dbs = TRUE], Opened(s), data.script)


(***************************************************************************)
(* The state machine: the calls a program makes on its CoverageData        *)
(* objects, one action per public method.                                  *)
(***************************************************************************)
Stores == {"A", "B", "C"}
Threads == {"t1", "t2"}

\* A thread that is in no call: it has no entry in self._dbs yet.  dbs is
\* whether threading.get_ident() is in self._dbs of the object of store A,
\* mem the database of the thread's connection when the file is ":memory:".
NewThread == [pc |-> "idle", op |-> None, arg |-> <<>>, err |-> Ok, dbs |-> FALSE,
              mem |-> NoDb, file_id |-> 0, context_id |-> 0, existing |-> {}]
ContextNames == {"", "t"}

Item(file, nums) == [file |-> file, nums |-> nums]
ArcItem(file, arcs_) == [file |-> file, arcs |-> arcs_]
TracerItem(file, plugin) == [file |-> file, plugin |-> plugin]

\* The arguments the calls are made with.
Contexts == {None, "t"}
LineData == {<<Item("a.py", {1, 2})>>, <<Item("a.py", {2, 9})>>, <<Item("b.py", {1})>>}
ArcData == {<<ArcItem("a.py", {<<-1, 1>>, <<1, 2>>})>>, <<ArcItem("a.py", {<<2, 3>>})>>,
            <<ArcItem("b.py", {<<1, -1>>})>>}
TracerData == {<<TracerItem("a.py", "p")>>, <<TracerItem("a.py", "q")>>,
               <<TracerItem("a.py", "")>>,
               <<TracerItem("b.py", "p"), TracerItem("a.py", "q")>>}
TouchData == {[filenames |-> <<"b.py">>, plugin_name |-> None],
              [filenames |-> <<"b.py", "a.py">>, plugin_name |-> "p"]}
PurgeData == {<<"a.py">>, <<"b.py", "a.py">>}
Identity == [p \in Paths |-> p]
Alias == [p \in Paths |-> "a.py"]
MapPaths == {Identity, Alias}

Call(op, n, other, arg, err) ==
    [op |-> op, store |-> n, other |-> other, arg |-> arg, err |-> err]

\* History of a store: the kinds of data add_lines/add_arcs committed to it
\* since it was created or last erased (wrote); the line sets add_lines added
\* per (file, context), as long as only add_lines and set_context have been
\* called on the object since it was created (pure); whether the last call
\* repeated the successful update before it.  query is the selector the object
\* was last given: the name of set_query_context (exact) or the patterns of
\* set_query_contexts, not set when it was cleared or never given.
NewHist == [wrote |-> {}, pure |-> TRUE, merged_again |-> FALSE,
            added |-> [k \in Paths \X ContextNames |-> {}],
            query |-> [set |-> FALSE, exact |-> FALSE, names |-> <<>>]]

ContextName(context) == IF context \in {None, ""} THEN "" ELSE context

Init ==
    /\ getpid = 1
    /\ \E no_disk \in BOOLEAN :
          stores = [n \in Stores |->
                     St(__init__(IF n = "A" THEN no_disk ELSE FALSE, 1), NoDb)]
    /\ last = Call("__init__", "A", "A", <<>>, Ok)
    /\ hist = [n \in Stores |-> NewHist]
    /\ steps = 0
    /\ threads = [t \in Threads |-> NewThread]

\* One call op(arg) on store n with result r, leaving history h for n.
Step(n, op, arg, r, h) ==
    /\ steps' = steps + 1
    /\ stores' = [stores EXCEPT ![n] = St(r.obj, r.db)]
    /\ last' = Call(op, n, n, arg, r.err)
    /\ hist' = [hist EXCEPT ![n] = h]
    /\ UNCHANGED <<getpid, threads>>

Impure(h) == [h EXCEPT !.pure = FALSE, !.merged_again = FALSE]

\* The history of store n as the next call finds it: an object not yet in use
\* erases the data on its first use (_start_using).
Found(n) == IF stores[n].obj.have_used THEN hist[n] ELSE [hist[n] EXCEPT !.wrote = {}]

SetContext(n, data) ==
    \E c \in data : Step(n, "set_context", c, set_context(stores[n], c), hist[n])

\* The history of store n after add_lines(d) under context c ended with err.
AddedLines(n, d, c, err) ==
    IF err # Ok THEN Found(n)
    ELSE [Found(n) EXCEPT
            !.wrote = @ \cup {"lines"},
            !.added = [k \in DOMAIN @ |->
                         @[k] \cup UNION {d[i].nums : i \in
                             {j \in 1..Len(d) : <<d[j].file, c>> = k}}]]

LinesAdded(n, d, r) ==
    Step(n, "add_lines", d, r,
         AddedLines(n, d, ContextName(stores[n].obj.current_context), r.err))

AddLines(n, data) == \E d \in data : LinesAdded(n, d, add_lines(stores[n], d))

ArcsAdded(n, d, r) ==
    Step(n, "add_arcs", d, r,
         IF r.err # Ok THEN Found(n)
         ELSE [Impure(Found(n)) EXCEPT !.wrote = @ \cup {"arcs"}])

AddArcs(n, data) == \E d \in data : ArcsAdded(n, d, add_arcs(stores[n], d))

AddFileTracers(n, data) ==
    \E d \in data :
        Step(n, "add_file_tracers", d, add_file_tracers(stores[n], d), Impure(Found(n)))

TouchFiles(n, data) ==
    \E d \in data :
        Step(n, "touch_files", d, touch_files(stores[n], d.filenames, d.plugin_name),
             Impure(Found(n)))

PurgeFiles(n, data) ==
    \E d \in data :
        Step(n, "purge_files", d, purge_files(stores[n], d), Impure(Found(n)))

Erase(n) ==
    Step(n, "erase", <<>>, Returned(erase(stores[n])), [Impure(hist[n]) EXCEPT !.wrote = {}])

\* A new CoverageData object on the data file of store n, and read() on it.
Reopen(n) ==
    /\ ~stores[n].obj.no_disk
    /\ Step(n, "read", <<>>, Returned(read(St(__init__(FALSE, getpid), stores[n].db))),
            [Impure(NewHist) EXCEPT !.wrote = hist[n].wrote])

\* A new CoverageData object on the data file of store n, not read.
Construct(n) ==
    /\ ~stores[n].obj.no_disk
    /\ Step(n, "__init__", <<>>, Res(__init__(FALSE, getpid), stores[n].db, Ok),
            [Impure(NewHist) EXCEPT !.wrote = hist[n].wrote])

\* The call update(other, map_path) on store n has returned r.
Merged(n, o, m, r) ==
    /\ stores' = [stores EXCEPT ![n] = r.self, ![o] = r.other]
    /\ last' = Call("update", n, o, m, r.err)

Update(n, o) ==
    /\ n # o
    /\ \E m \in MapPaths : Merged(n, o, m, update(stores[n], stores[o], m))
    /\ hist' = [hist EXCEPT ![n] =
                  [Impure(Found(n)) EXCEPT !.merged_again =
                      /\ last.op = "update" /\ last.err = Ok /\ last'.err = Ok
                      /\ last.store = n /\ last.other = o /\ last.arg = last'.arg]]
    /\ steps' = steps + 1
    /\ UNCHANGED <<getpid, threads>>

\* The write path: every call on one store and its data file.
Next ==
    /\ steps < MaxSteps
    /\ \/ SetContext("A", Contexts)
       \/ AddLines("A", LineData)
       \/ AddArcs("A", ArcData)
       \/ AddFileTracers("A", TracerData)
       \/ TouchFiles("A", TouchData)
       \/ PurgeFiles("A", PurgeData)
       \/ Erase("A")
       \/ Reopen("A")

Spec == Init /\ [][Next]_vars

\* The merge engine: stores B and C are filled and merged into store A, which
\* has data of its own.
Sources == {"B", "C"}
MergeLines_A == {<<Item("a.py", {1, 2})>>}
MergeLines_B == {<<Item("a.py", {2, 9})>>, <<Item("b.py", {1})>>}
MergeLines_C == {<<Item("b.py", {1})>>}
MergeArcs_A == {<<ArcItem("a.py", {<<-1, 1>>, <<1, 2>>})>>}
MergeArcs_B == {<<ArcItem("a.py", {<<2, 3>>})>>}
MergeArcs_C == {<<ArcItem("b.py", {<<1, -1>>})>>}
MergeTracers_A == {<<TracerItem("a.py", "p")>>, <<TracerItem("b.py", "q")>>}
MergeTracers_B == {<<TracerItem("a.py", "p")>>,
                   <<TracerItem("b.py", "p"), TracerItem("a.py", "q")>>}

NextMerge ==
    /\ steps < MaxMergeSteps
    /\ \/ AddLines("A", MergeLines_A)
       \/ AddLines("B", MergeLines_B)
       \/ AddLines("C", MergeLines_C)
       \/ AddArcs("A", MergeArcs_A)
       \/ AddArcs("B", MergeArcs_B)
       \/ AddArcs("C", MergeArcs_C)
       \/ AddFileTracers("A", MergeTracers_A)
       \/ AddFileTracers("B", MergeTracers_B)
       \/ SetContext("B", {"t"})
       \/ Construct("B")
       \/ Erase("A")
       \/ \E o \in Sources : Update("A", o)

SpecMerge == Init /\ [][NextMerge]_vars

\* The query selectors: contexts are recorded and stores merged and erased
\* while the object keeps the selector it was given.
MaxQuerySteps == 5
QueryNames == {"", "t", "ut"}
QueryContexts == {None, "t", "ut"}
QueryPatterns == {NoPatterns, Patterns(<<>>), Patterns(<<"u">>), Patterns(<<"u", "t">>)}
QueryLines_A == {<<Item("a.py", {1, 2})>>, <<Item("a.py", {9})>>}
QueryArcs_A == {<<ArcItem("a.py", {<<-1, 1>>, <<1, 2>>})>>}
QueryLines_B == {<<Item("a.py", {2, 9})>>}

Selected(n, r, query) == Step(n, r.op, r.arg, r.res, [Found(n) EXCEPT !.query = query])

SetQueryContext(n, names) ==
    \E c \in names :
        Selected(n, [op |-> "set_query_context", arg |-> c,
                     res |-> set_query_context(stores[n], c)],
                 [set |-> TRUE, exact |-> TRUE, names |-> <<c>>])

SetQueryContexts(n, data) ==
    \E d \in data :
        Selected(n, [op |-> "set_query_contexts", arg |-> d,
                     res |-> set_query_contexts(stores[n], d)],
                 [set |-> ~d.is_none /\ d.list # <<>>, exact |-> FALSE, names |-> d.list])

NextQuery ==
    /\ steps < MaxQuerySteps
    /\ \/ SetContext("A", QueryContexts)
       \/ AddLines("A", QueryLines_A)
       \/ AddArcs("A", QueryArcs_A)
       \/ Erase("A")
       \/ SetQueryContext("A", QueryNames)
       \/ SetQueryContexts("A", QueryPatterns)
       \/ SetContext("B", {"t"})
       \/ AddLines("B", QueryLines_B)
       \/ Update("A", "B")

SpecQuery == Init /\ [][NextQuery]_vars

\* Serialization: store A is filled, a new object in the place of store B
\* loads what A dumps, and byte strings without the marker are loaded.
MaxDumpSteps == 4
DumpLines == {<<Item("a.py", {1, 2})>>, <<Item("b.py", {1})>>}
DumpArcs == {<<ArcItem("a.py", {<<-1, 1>>, <<1, 2>>})>>}
DumpTracers == {<<TracerItem("a.py", "p")>>, <<TracerItem("b.py", "p"), TracerItem("a.py", "q")>>}
BadBytes == {Bytes("", dump(NoDb)), Bytes("x", dump(_init_db))}

\* new.loads(data) has returned r, data being what dumps returned on store o.
Loaded(n, o, d, r) ==
    /\ stores' = [stores EXCEPT ![o] = St(d.obj, d.db), ![n] = St(r.obj, r.db)]
    /\ last' = Call("loads", n, o, d.ret, r.err)
    /\ hist' = [hist EXCEPT ![n] = Impure(NewHist)]
    /\ steps' = steps + 1
    /\ UNCHANGED <<getpid, threads>>

LoadsInto(n, o, new, d) == Loaded(n, o, d, loads(new, d.ret))

\* A new CoverageData object, in the place of store n, loads the bytes that
\* dumps returns on store o.
Loads(n, o) ==
    \E no_disk \in BOOLEAN :
        LoadsInto(n, o, St(__init__(no_disk, getpid), NoDb), dumps(stores[o]))

\* loads of a byte string that does not start with the marker, on store n.
LoadsBad(n) == \E d \in BadBytes : Step(n, "loads", d, loads(stores[n], d), hist[n])

NextDump ==
    /\ steps < MaxDumpSteps
    /\ \/ SetContext("A", {"t"})
       \/ AddLines("A", DumpLines)
       \/ AddArcs("A", DumpArcs)
       \/ AddFileTracers("A", DumpTracers)
       \/ Erase("A")
       \/ Loads("B", "A")
       \/ LoadsBad("A")
       \/ LoadsBad("B")

SpecDump == Init /\ [][NextDump]_vars

\* Forking: the object of store A, made with one of the suffix modes, is
\* used in a process, the process forks, and the copy of the object is used
\* in the child; getpid is the id of the process the calls are made in.
MaxForkSteps == 5
MaxPid == 3
Suffixes == {None, "x", SuffixTrue}
ForkLines == {<<Item("a.py", {1, 2})>>, <<Item("b.py", {1})>>}
ForkArcs == {<<ArcItem("a.py", {<<-1, 1>>, <<1, 2>>})>>}

InitFork ==
    /\ getpid = 1
    /\ \E suffix \in Suffixes : \E no_disk \in BOOLEAN :
          stores = [n \in Stores |->
                      IF n = "A" THEN St(CoverageData(suffix, no_disk, 1), NoDb)
                      ELSE St(__init__(FALSE, 1), NoDb)]
    /\ last = Call("__init__", "A", "A", <<>>, Ok)
    /\ hist = [n \in Stores |-> NewHist]
    /\ steps = 0
    /\ threads = [t \in Threads |-> NewThread]

\* os.fork(): the calls that follow are made in the child, on its copy of
\* the object, whose _pid is the parent's.
Fork(n) ==
    /\ getpid < MaxPid
    /\ getpid' = getpid + 1
    /\ last' = Call("fork", n, n, <<>>, Ok)
    /\ steps' = steps + 1
    /\ UNCHANGED <<stores, hist, threads>>

NextFork ==
    /\ steps < MaxForkSteps
    /\ \/ SetContext("A", {"t"})
       \/ AddLines("A", ForkLines)
       \/ AddArcs("A", ForkArcs)
       \/ Erase("A")
       \/ Fork("A")

SpecFork == InitFork /\ [][NextFork]_vars

\* The forked child: after the fork the child calls methods that go through
\* _start_using and methods that do not.
MaxChildSteps == 4
ChildLines == {<<Item("a.py", {1, 2})>>}

Dumps(n) == Step(n, "dumps", <<>>, dumps(stores[n]), hist[n])
Read(n) == Step(n, "read", <<>>, Returned(read(stores[n])), hist[n])
Bool(n) == Step(n, "__bool__", <<>>, __bool__(stores[n]), hist[n])
MeasuredFiles(n) == Step(n, "measured_files", <<>>, Ret(stores[n], measured_files(stores[n])), hist[n])
MeasuredContexts(n) ==
    Step(n, "measured_contexts", <<>>, measured_contexts(stores[n]), Found(n))

NextChild ==
    /\ steps < MaxChildSteps
    /\ \/ AddLines("A", ChildLines)
       \/ Fork("A")
       \/ Erase("A")
       \/ Read("A")
       \/ Dumps("A")
       \/ Bool("A")
       \/ MeasuredFiles("A")
       \/ MeasuredContexts("A")

SpecChild == InitFork /\ [][NextChild]_vars

(***************************************************************************)
(* Threads.  The threads of one process call the collection methods on the *)
(* object of store A.  A call is made (the thread waits for the lock),     *)
(* enters the "with self._lock" of _locked, runs the body of the method    *)
(* and leaves the block.  The body of add_lines is two steps, up to the    *)
(* select of the existing row and from there on, so that bodies interleave *)
(* wherever the lock lets them.                                            *)
(***************************************************************************)
MaxThreadSteps == 4
ThreadContexts == {"t"}
ThreadLines == {<<Item("a.py", {1, 2})>>, <<Item("a.py", {2, 9})>>}
ThreadArcs == {<<ArcItem("a.py", {<<1, 2>>})>>}
ThreadTracers == {<<TracerItem("a.py", "p")>>, <<TracerItem("a.py", "q")>>}

\* threading.RLock: acquire() returns when no other thread owns the lock.
CanAcquire(lock, t) == lock.owner \in {None, t}
acquire(lock, t) == [owner |-> t, count |-> lock.count + 1]
release(lock) ==
    IF lock.count <= 1 THEN [owner |-> None, count |-> 0]
    ELSE [lock EXCEPT !.count = @ - 1]

\* A faulty variant of _locked that calls the method without the lock (C18
\* tells it from the decorator of the code).
_unlocked(obj, t) == TRUE

\* _locked: "with self._lock:" lets thread t go on to the method.
_locked(obj, t) == CanAcquire(obj.lock, t)

\* A faulty variant of the exit of "with self._lock:" that keeps the lock
\* when the method raised (C17 tells it from the block of the code).
_locked_leaky(lock, err) == IF err = Ok THEN release(lock) ELSE lock

\* The exit of "with self._lock:", by return or by the exception err.
_locked_exit(lock, err) == release(lock)

\* The store as thread t has it: its own entry in self._dbs and, when the
\* file is ":memory:", the database of its own connection.
View(t) ==
    St([stores["A"].obj EXCEPT !.dbs = threads[t].dbs],
       IF stores["A"].obj.no_disk THEN threads[t].mem ELSE stores["A"].db)

\* _start_using on the store v resets the object: _reset closes and forgets
\* the connections of all the threads of a disk-backed object.
Closes(v) == ~v.obj.no_disk /\ (~v.obj.have_used \/ v.obj.pid # getpid)

\* Thread t has run a part of its call that left its view of the store as r
\* and itself as th.
Ran(t, r, closed, th) ==
    /\ stores' = [stores EXCEPT !["A"] =
          St([r.obj EXCEPT !.dbs = IF closed THEN FALSE ELSE stores["A"].obj.dbs],
             IF r.obj.no_disk THEN stores["A"].db ELSE r.db)]
    /\ threads' = [u \in Threads |->
          IF u = t
          THEN [th EXCEPT !.dbs = r.obj.dbs, !.mem = IF r.obj.no_disk THEN r.db ELSE NoDb]
          ELSE IF closed THEN [threads[u] EXCEPT !.dbs = FALSE] ELSE threads[u]]
    /\ UNCHANGED <<getpid, last, steps>>

\* Thread t calls method op with argument arg.
Invoke(t, op, arg) ==
    /\ steps < MaxThreadSteps
    /\ threads[t].pc = "idle"
    /\ threads' = [threads EXCEPT ![t] =
                     [@ EXCEPT !.pc = "waiting", !.op = op, !.arg = arg, !.err = Ok]]
    /\ steps' = steps + 1
    /\ UNCHANGED <<stores, getpid, last, hist>>

CallSetContext(t) == \E c \in ThreadContexts : Invoke(t, "set_context", c)
CallAddLines(t) == \E d \in ThreadLines : Invoke(t, "add_lines", d)
CallAddArcs(t) == \E d \in ThreadArcs : Invoke(t, "add_arcs", d)
CallAddFileTracers(t) == \E d \in ThreadTracers : Invoke(t, "add_file_tracers", d)

\* _locked: the "with self._lock:" block is entered.
Enter(t) ==
    /\ threads[t].pc = "waiting"
    /\ _locked(stores["A"].obj, t)
    /\ stores' = [stores EXCEPT !["A"].obj.lock = acquire(@, t)]
    /\ threads' = [threads EXCEPT ![t].pc = "body"]
    /\ UNCHANGED <<getpid, last, hist, steps>>

\* _locked: the block is left, the call returns or raises.
Leave(t) ==
    /\ threads[t].pc = "done"
    /\ stores' = [stores EXCEPT !["A"].obj.lock = _locked_exit(@, threads[t].err)]
    /\ threads' = [threads EXCEPT ![t].pc = "idle"]
    /\ last' = Call(threads[t].op, "A", "A", threads[t].arg, threads[t].err)
    /\ UNCHANGED <<getpid, hist, steps>>

\* The body of set_context.
SetContextBody(t) ==
    /\ threads[t].pc = "body" /\ threads[t].op = "set_context"
    /\ Ran(t, set_context(View(t), threads[t].arg), FALSE, [threads[t] EXCEPT !.pc = "done"])
    /\ UNCHANGED hist

\* The body of add_arcs has given r.
ArcsRan(t, v, r) ==
    /\ Ran(t, r, Closes(v), [threads[t] EXCEPT !.pc = "done", !.err = r.err])
    /\ hist' = [hist EXCEPT !["A"] =
                  IF r.err # Ok THEN Found("A")
                  ELSE [Impure(Found("A")) EXCEPT !.wrote = @ \cup {"arcs"}]]

AddArcsBody(t) ==
    /\ threads[t].pc = "body" /\ threads[t].op = "add_arcs"
    /\ ArcsRan(t, View(t), add_arcs(View(t), threads[t].arg))

\* The body of add_file_tracers has given r.
TracersRan(t, v, r) ==
    /\ Ran(t, r, Closes(v), [threads[t] EXCEPT !.pc = "done", !.err = r.err])
    /\ hist' = [hist EXCEPT !["A"] = Impure(Found("A"))]

AddFileTracersBody(t) ==
    /\ threads[t].pc = "body" /\ threads[t].op = "add_file_tracers"
    /\ TracersRan(t, View(t), add_file_tracers(View(t), threads[t].arg))

\* add_lines of one file up to the select: the context id, the file id and
\* the existing row are locals of the thread.
LinesSelected(t, v, s, filename) ==
    Ran(t, s, Closes(v),
        [threads[t] EXCEPT
            !.pc = "row",
            !.file_id = s.obj.file_map[filename],
            !.context_id = CHOOSE c \in s.obj.current_context_id : TRUE,
            !.existing = {r \in s.db.line_bits :
                            /\ r.file_id = s.obj.file_map[filename]
                            /\ {r.context_id} = s.obj.current_context_id}])

\* add_lines after self._choose_lines_or_arcs(lines=True) has given r.
LinesChosen(t, v, r, filename) ==
    /\ IF r.err # Ok
       THEN Ran(t, r, Closes(v), [threads[t] EXCEPT !.pc = "done", !.err = r.err])
       ELSE LinesSelected(t, v, _file_id(_set_context_id(_connect(St(r.obj, r.db))),
                                         filename, TRUE), filename)
    /\ hist' = [hist EXCEPT !["A"] =
                  AddedLines("A", threads[t].arg, ContextName(v.obj.current_context), r.err)]

AddLinesBegin(t) ==
    /\ threads[t].pc = "body" /\ threads[t].op = "add_lines"
    /\ LinesChosen(t, View(t), _choose_lines_or_arcs(_start_using(View(t)), TRUE, FALSE),
                   threads[t].arg[1].file)

\* add_lines from the select on: the union with the existing row and the
\* "insert or replace into line_bits".
AddLinesWrite(t) ==
    /\ threads[t].pc = "row"
    /\ Ran(t, add_lines_row(View(t), threads[t].file_id, threads[t].context_id,
                            nums_to_numbits(threads[t].arg[1].nums), threads[t].existing),
           FALSE, [threads[t] EXCEPT !.pc = "done"])
    /\ UNCHANGED hist

NextThreads ==
    \E t \in Threads :
        \/ CallSetContext(t)
        \/ CallAddLines(t)
        \/ CallAddArcs(t)
        \/ CallAddFileTracers(t)
        \/ Enter(t)
        \/ SetContextBody(t)
        \/ AddArcsBody(t)
        \/ AddFileTracersBody(t)
        \/ AddLinesBegin(t)
        \/ AddLinesWrite(t)
        \/ Leave(t)

SpecThreads == Init /\ [][NextThreads]_vars

\* ---------------------------------------------------------------------------
\* Termination of the calls of the threads.  touch_files is not decorated
\* with _locked: it opens its transaction without the lock and takes the lock
\* only for the add_file_tracers call it makes inside the transaction.
MaxLiveSteps == 3

LiveTouches == {[filenames |-> <<"a.py">>, plugin_name |-> "p"],
                [filenames |-> <<"a.py">>, plugin_name |-> ""]}

\* sqlite3: a statement that needs the write lock another connection holds
\* fails when the busy timeout has passed.
DatabaseLocked == "database is locked"

\* Thread t is inside the "with self._connect()" block of touch_files.
InTouchBlock(t) ==
    threads[t].op = "touch_files" /\ threads[t].pc \in {"waiting", "body", "done"}

\* Another thread has a transaction open on the data file: whether a
\* statement of thread t then fails depends on whether it has to write.
Busy(t) ==
    /\ ~stores["A"].obj.no_disk
    /\ \E u \in Threads \ {t} : InTouchBlock(u) \/ threads[u].pc = "row"

\* Thread t calls touch_files(d.filenames, d.plugin_name): no lock is asked for.
CallTouchFiles(t) ==
    \E d \in LiveTouches :
        /\ steps < MaxLiveSteps
        /\ threads[t].pc = "idle"
        /\ threads' = [threads EXCEPT ![t] =
                         [@ EXCEPT !.pc = "touch", !.op = "touch_files", !.arg = d, !.err = Ok]]
        /\ steps' = steps + 1
        /\ UNCHANGED <<stores, getpid, last, hist>>

\* touch_files of thread t has returned or raised r without calling
\* add_file_tracers.
TouchReturned(t, v, r) ==
    /\ stores' = [stores EXCEPT !["A"] =
          St([r.obj EXCEPT !.dbs = IF Closes(v) THEN FALSE ELSE stores["A"].obj.dbs],
             IF r.obj.no_disk THEN stores["A"].db ELSE r.db)]
    /\ threads' = [u \in Threads |->
          IF u = t
          THEN [threads[t] EXCEPT !.pc = "idle", !.err = r.err, !.dbs = r.obj.dbs,
                                  !.mem = IF r.obj.no_disk THEN r.db ELSE NoDb]
          ELSE IF Closes(v) THEN [threads[u] EXCEPT !.dbs = FALSE] ELSE threads[u]]
    /\ last' = Call("touch_files", "A", "A", threads[t].arg, r.err)
    /\ hist' = [hist EXCEPT !["A"] = Impure(Found("A"))]
    /\ UNCHANGED <<getpid, steps>>

\* touch_files up to the call of add_file_tracers; r is what the code before
\* that call gives (the call with no plugin name runs exactly that code).  With
\* a plugin name and no error the thread goes on to "with self._lock:" of
\* add_file_tracers, its transaction open; what it wrote so far is in its own
\* connection and reaches the store when the block is left.
TouchBegun(t, v, r) ==
    IF r.err # Ok \/ threads[t].arg.plugin_name = ""
    THEN TouchReturned(t, v, r)
    ELSE /\ threads' = [threads EXCEPT ![t].pc = "waiting"]
         /\ UNCHANGED <<stores, getpid, last, hist, steps>>

TouchFilesBegin(t) ==
    /\ threads[t].pc = "touch"
    /\ TouchBegun(t, View(t), touch_files(View(t), threads[t].arg.filenames, ""))

\* The add_file_tracers call of touch_files in thread t, the lock held, and
\* the rest of the block.
TouchFilesBody(t) ==
    /\ threads[t].pc = "body" /\ threads[t].op = "touch_files"
    /\ TracersRan(t, View(t),
                  touch_files(View(t), threads[t].arg.filenames, threads[t].arg.plugin_name))

\* A statement of thread t fails on the write lock of another connection:
\* in touch_files before the lock is asked for, in the other methods inside
\* "with self._lock:".
TouchFilesBusy(t) ==
    /\ threads[t].pc = "touch" /\ Busy(t)
    /\ threads' = [threads EXCEPT ![t] = [@ EXCEPT !.pc = "idle", !.err = DatabaseLocked]]
    /\ last' = Call("touch_files", "A", "A", threads[t].arg, DatabaseLocked)
    /\ UNCHANGED <<stores, getpid, hist, steps>>

BodyBusy(t) ==
    /\ threads[t].pc = "body" /\ threads[t].op # "set_context" /\ Busy(t)
    /\ threads' = [threads EXCEPT ![t] = [@ EXCEPT !.pc = "done", !.err = DatabaseLocked]]
    /\ UNCHANGED <<stores, getpid, last, hist, steps>>

\* The steps of a call of thread t that is under way.
Progress(t) ==
    \/ Enter(t)
    \/ SetContextBody(t)
    \/ AddArcsBody(t)
    \/ AddFileTracersBody(t)
    \/ AddLinesBegin(t)
    \/ AddLinesWrite(t)
    \/ TouchFilesBegin(t)
    \/ TouchFilesBody(t)
    \/ TouchFilesBusy(t)
    \/ BodyBusy(t)
    \/ Leave(t)

NextLive ==
    \E t \in Threads :
        \/ steps < MaxLiveSteps /\ CallSetContext(t)
        \/ steps < MaxLiveSteps /\ CallAddLines(t)
        \/ steps < MaxLiveSteps /\ CallAddArcs(t)
        \/ steps < MaxLiveSteps /\ CallAddFileTracers(t)
        \/ CallTouchFiles(t)
        \/ Progress(t)

\* Thread t is in the code of a method, where nothing makes it wait: one of
\* the body steps of Progress(t) is enabled.
Ready(t) == threads[t].pc \in {"touch", "body", "row"}

\* Thread t has made a body step: each of them moves it on.
Stepped(t) == Ready(t) /\ threads'[t].pc # threads[t].pc

\* A fair scheduler: a thread that can enter or leave "with self._lock:" does
\* so, and a thread in the code of a method goes on (weak fairness of the
\* body steps, with their enabling condition written out).
SpecLive ==
    /\ Init /\ [][NextLive]_vars
    /\ \A t \in Threads :
          /\ WF_vars(Enter(t))
          /\ WF_vars(Leave(t))
          /\ []<>(~Ready(t)) \/ []<><<Stepped(t)>>_vars

(***************************************************************************)
(* Crashes.  The process is killed inside add_lines or add_arcs on a       *)
(* disk-backed store: the data file keeps what the transactions committed  *)
(* so far, the open transaction is rolled back, and a new process reads    *)
(* the file with a new object.  The points a call can be killed at: after  *)
(* _start_using, after _choose_lines_or_arcs, in the "with" block after    *)
(* _set_context_id, and in the block after the rows of all the files.      *)
(***************************************************************************)
MaxCrashSteps == 4
CrashPoints == {"using", "chosen", "context", "rows"}
CrashLines == {<<Item("a.py", {1, 2})>>, <<Item("b.py", {1}), Item("a.py", {9})>>}
CrashArcs == {<<ArcItem("a.py", {<<-1, 1>>, <<1, 2>>})>>}
Killed == "killed"

\* The data file after the process was killed in the "with self._connect()"
\* block of add_lines that it entered on the connected store s.
add_lines_killed_in_block(s, line_data, point) ==
    IF point = "context"
    THEN Transaction(s.db, Res(s.obj, _set_context_id(s).db, Killed)).db
    ELSE Transaction(s.db, Res(s.obj, add_lines_loop(_set_context_id(s), line_data, 1).db,
                               Killed)).db

\* ... after self._choose_lines_or_arcs(lines=True) has returned with store r.
add_lines_killed_chosen(r, line_data, point) ==
    IF point = "chosen" THEN r.db
    ELSE add_lines_killed_in_block(_connect(St(r.obj, r.db)), line_data, point)

\* ... after self._start_using() has returned with store s.
add_lines_killed_using(s, line_data, point) ==
    IF point = "using" THEN s.db
    ELSE add_lines_killed_chosen(_choose_lines_or_arcs(s, TRUE, FALSE), line_data, point)

\* The data file after the process was killed at point in add_lines(line_data).
add_lines_killed(s, line_data, point) ==
    add_lines_killed_using(_start_using(s), line_data, point)

\* The same for add_arcs.
add_arcs_killed_in_block(s, arc_data, point) ==
    IF point = "context"
    THEN Transaction(s.db, Res(s.obj, _set_context_id(s).db, Killed)).db
    ELSE Transaction(s.db, Res(s.obj, add_arcs_loop(_set_context_id(s), arc_data, 1).db,
                               Killed)).db

add_arcs_killed_chosen(r, arc_data, point) ==
    IF point = "chosen" THEN r.db
    ELSE add_arcs_killed_in_block(_connect(St(r.obj, r.db)), arc_data, point)

add_arcs_killed_using(s, arc_data, point) ==
    IF point = "using" THEN s.db
    ELSE add_arcs_killed_chosen(_choose_lines_or_arcs(s, FALSE, TRUE), arc_data, point)

add_arcs_killed(s, arc_data, point) ==
    add_arcs_killed_using(_start_using(s), arc_data, point)

\* The call op(d) on store n was killed at point and left the data file db;
\* a new object of a new process reads the file.
Crashed(n, op, d, point, db) ==
    /\ stores' = [stores EXCEPT ![n] = read(St(__init__(FALSE, getpid), db))]
    /\ last' = Call("crash", n, n, [op |-> op, data |-> d, point |-> point], Ok)
    /\ hist' = [hist EXCEPT ![n] = [Impure(NewHist) EXCEPT !.wrote = Found(n).wrote]]
    /\ steps' = steps + 1
    /\ UNCHANGED <<getpid, threads>>

\* A point after _choose_lines_or_arcs is reached when it did not raise.
CrashInAddLines(n, data) ==
    \E d \in data : \E point \in CrashPoints :
        /\ ~stores[n].obj.no_disk
        /\ point # "using" =>
              _choose_lines_or_arcs(_start_using(stores[n]), TRUE, FALSE).err = Ok
        /\ Crashed(n, "add_lines", d, point, add_lines_killed(stores[n], d, point))

CrashInAddArcs(n, data) ==
    \E d \in data : \E point \in CrashPoints :
        /\ ~stores[n].obj.no_disk
        /\ point # "using" =>
              _choose_lines_or_arcs(_start_using(stores[n]), FALSE, TRUE).err = Ok
        /\ Crashed(n, "add_arcs", d, point, add_arcs_killed(stores[n], d, point))

NextCrash ==
    /\ steps < MaxCrashSteps
    /\ \/ SetContext("A", {"t"})
       \/ AddLines("A", CrashLines)
       \/ AddArcs("A", CrashArcs)
       \/ Erase("A")
       \/ CrashInAddLines("A", CrashLines)
       \/ CrashInAddArcs("A", CrashArcs)

SpecCrash == Init /\ [][NextCrash]_vars

(***************************************************************************)
(* What a caller observes of a store through the public methods.           *)
(***************************************************************************)
\* lines(filename) after set_query_context(context)
LinesIn(s, filename, context) == lines(set_query_context(s, context), filename).ret
\* arcs(filename) after set_query_context(context)
ArcsIn(s, filename, context) == arcs(set_query_context(s, context), filename).ret
\* lines(filename) with no query context set
AllLines(s, filename) ==
    lines(St([s.obj EXCEPT !.query_context_ids = [set |-> FALSE, ids |-> {}]], s.db),
          filename).ret

Content(s) ==
    [files |-> measured_files(s),
     contexts |-> measured_contexts(s).ret,
     lines |-> [k \in Paths \X ContextNames |-> LinesIn(s, k[1], k[2])],
     arcs |-> [k \in Paths \X ContextNames |-> ArcsIn(s, k[1], k[2])],
     tracers |-> [f \in Paths |-> file_tracer(s, f).ret],
     has_lines |-> s.obj.has_lines,
     has_arcs |-> has_arcs(s)]

\* The rows of the data file, by name instead of by id.
LineRecords(db) ==
    {<<j.path, j.context, numbits_to_nums(j.row.numbits)>> : j \in JoinFileContext(db, db.line_bits)}
ArcRecords(db) ==
    {<<j.path, j.context, j.row.fromno, j.row.tono>> : j \in JoinFileContext(db, db.arc)}

(***************************************************************************)
(* The claims.                                                             *)
(***************************************************************************)
\* C1: a data file never holds both line records and arc records, whatever
\* sequence of add_lines, add_arcs, touch_files, purge_files, erase and
\* re-opening with a new object followed by read() produced it.
C1_LinesOrArcsNotBoth ==
    \A n \in Stores :
        ~stores[n].obj.no_disk => ~(stores[n].db.line_bits # {} /\ stores[n].db.arc # {})


\* A call of method op on store n is the step being taken.
Called(n, op) == steps' # steps /\ last'.store = n /\ last'.op = op

\* C2: a store to which add_lines has committed (since it was created or last
\* erased) rejects every later add_arcs, and one to which add_arcs has
\* committed rejects every later add_lines, with a data-conflict error; the
\* rejected call leaves the measured files, contexts, lines, arcs and the mode
\* as they were.
C2_OppositeKindRejected ==
    [][\A n \in Stores :
         /\ (Called(n, "add_arcs") /\ "lines" \in hist[n].wrote)
               => last'.err = "Can't add branch measurements to existing line data"
         /\ (Called(n, "add_lines") /\ "arcs" \in hist[n].wrote)
               => last'.err = "Can't add line measurements to existing branch data"
         /\ ((Called(n, "add_arcs") \/ Called(n, "add_lines")) /\ last'.err \in ModeConflicts)
               => Content(stores'[n]) = Content(stores[n])]_vars

\* The union of the line sets added for filename under all contexts.
AddedFor(h, filename) == UNION {h.added[<<filename, c>>] : c \in ContextNames}

LinesAreUnionOfAdded(n) ==
    /\ \A k \in Paths \X ContextNames :
          LinesIn(stores[n], k[1], k[2]).data = hist[n].added[k]
    /\ \A f \in Paths : AllLines(stores[n], f).data = AddedFor(hist[n], f)

\* C3: after any sequence of add_lines (and set_context) calls on a new
\* store, the lines of each (file, context) are the union of all the
\* line sets added for it, and lines(file) with no query context is the union of
\* all the line sets added for the file: no add_lines loses a recorded line.
C3_LinesAreUnion == \A n \in Stores : hist[n].pure => LinesAreUnionOfAdded(n)

\* C3 witness: two different line sets were added for one file under one
\* context, and another under a second context.
C3_Witness ==
    /\ hist["A"].pure
    /\ hist["A"].added[<<"a.py", "">>] = {1, 2, 9}
    /\ hist["A"].added[<<"a.py", "t">>] # {}
    /\ last.op = "add_lines"

\* The tracer name recorded for filename before the call: None, "" or a name.
TracerBefore(n, filename) == file_tracer(stores[n], filename).ret

\* C10: add_file_tracers raises a tracer conflict exactly when a file of the
\* mapping has a non-empty tracer name that differs from the given one;
\* re-associating the recorded name changes nothing; a failed call leaves
\* measured_files() and every tracer name unchanged; a file has at most one
\* tracer row.
C10_AddFileTracers ==
    [][\A n \in Stores : Called(n, "add_file_tracers") =>
         LET d == last'.arg
             differs(i) == /\ TracerBefore(n, d[i].file) \notin {None, ""}
                           /\ TracerBefore(n, d[i].file) # d[i].plugin
         IN  /\ (last'.err = TracerConflict) <=> (\E i \in 1..Len(d) : differs(i))
             /\ (\A i \in 1..Len(d) : TracerBefore(n, d[i].file) = d[i].plugin /\ d[i].plugin # "")
                   => Content(stores'[n]) = Content(stores[n])
             /\ last'.err # Ok =>
                   /\ measured_files(stores'[n]) = measured_files(stores[n])
                   /\ Content(stores'[n]).tracers = Content(stores[n]).tracers
             /\ \A r1, r2 \in stores'[n].db.tracer : r1.file_id = r2.file_id => r1 = r2]_vars


Incoming(other_data, map_path) == {map_path[r.path] : r \in other_data.db.file}

\* Merging x and then y into s: the final content of s and the errors raised.
MergedInOrder(s, x, y, map_path) ==
    LET r1 == update(s, x, map_path)
        r2 == update(r1.self, y, map_path)
    IN  [content |-> Content(r2.self), errs |-> {r1.err, r2.err}]

IncomingData(Get(_, _, _), other_data, map_path, filename, context) ==
    UNION {Get(other_data, g, context).data : g \in {x \in Paths : map_path[x] = filename}}

\* C6: a successful update(other) loses nothing and invents nothing: the lines
\* (line data) and arcs (arc data) of every file and context are the union of
\* what this store held and what other holds for the files mapped to it, and
\* the measured files and contexts are the unions of both stores'.
C6_UpdateIsUnion ==
    [][\A n \in Stores : (Called(n, "update") /\ last'.err = Ok) =>
         LET o == stores'[last'.other]
             m == last'.arg
         IN  /\ measured_files(stores'[n]) =
                    measured_files(stores[n]) \cup {m[g] : g \in measured_files(o)}
             /\ measured_contexts(stores'[n]).ret =
                    measured_contexts(stores[n]).ret \cup measured_contexts(o).ret
             /\ \A k \in Paths \X ContextNames :
                   /\ stores'[n].obj.has_lines =>
                        LinesIn(stores'[n], k[1], k[2]).data =
                            LinesIn(stores[n], k[1], k[2]).data
                                \cup IncomingData(LinesIn, o, m, k[1], k[2])
                   /\ stores'[n].obj.has_arcs =>
                        ArcsIn(stores'[n], k[1], k[2]).data =
                            ArcsIn(stores[n], k[1], k[2]).data
                                \cup IncomingData(ArcsIn, o, m, k[1], k[2])]_vars

\* C7: an update that fails with a mode conflict or a tracer conflict leaves
\* this store's measured files, contexts, lines, arcs, tracers and mode as
\* they were before the call.
C7_FailedUpdateChangesNothing ==
    [][\A n \in Stores :
         (Called(n, "update") /\ last'.err \in ModeConflicts \cup {TracerConflict})
         => Content(stores'[n]) = Content(stores[n])]_vars


\* The mode the data file of a store records: the has_arcs flag of its
\* metadata or, without one, the kind of records it holds.
HasArcsFlag(db) == {r.value : r \in {x \in db.meta : x.key = "has_arcs"}}
InLineMode(db) == "0" \in HasArcsFlag(db) \/ db.line_bits # {}
InArcMode(db) == "1" \in HasArcsFlag(db) \/ db.arc # {}
NoMode(s) == ~s.db.exists \/ (~InLineMode(s.db) /\ ~InArcMode(s.db))

\* C8: update fails with a conflict error when this store is in line-mode and
\* other holds arcs, or this store is in arc-mode and other holds lines, also
\* when other is an object that has not been read; a store in neither mode
\* raises no mode conflict for either kind, and after the merge has the mode of
\* the data other holds.
C8_UpdateModeConflict ==
    [][\A n \in Stores : Called(n, "update") =>
         LET this == stores[n]
             other == stores[last'.other].db
         IN  /\ (~NoMode(this) /\ InLineMode(this.db) /\ ArcRecords(other) # {})
                   => last'.err \in ModeConflicts \cup {TracerConflict}
             /\ (~NoMode(this) /\ InArcMode(this.db) /\ LineRecords(other) # {})
                   => last'.err \in ModeConflicts \cup {TracerConflict}
             /\ NoMode(this) =>
                   /\ last'.err \notin ModeConflicts
                   /\ (last'.err = Ok /\ ArcRecords(other) # {}) => has_arcs(stores'[n])
                   /\ (last'.err = Ok /\ LineRecords(other) # {}) => stores'[n].obj.has_lines]_vars

\* The tracer name the data file records for filename: "" without a tracer row.
RecordedTracer(db, filename) ==
    LET rows == {j \in JoinFile(db, db.tracer) : j.path = filename}
    IN  IF rows = {} THEN "" ELSE (CHOOSE j \in rows : TRUE).row.tracer

\* The tracer names other holds for the files that map_path sends to filename.
IncomingTracers(other, map_path, filename) ==
    {RecordedTracer(other, r.path) : r \in {x \in other.file : map_path[x.path] = filename}}

\* C9: in update, when a file of the incoming set is one this store holds
\* with a tracer name ("" without one) other than the incoming name, update
\* raises a tracer conflict; when no incoming name differs from the name this
\* store has for the file ("" when it has none), no tracer conflict is raised;
\* and after a successful update the tracer name of every incoming file is an
\* incoming name for it.
C9_UpdateComparesTracers ==
    [][\A n \in Stores : (Called(n, "update") /\ last'.err \notin ModeConflicts) =>
         LET this == stores[n].db
             other == stores[last'.other].db
             m == last'.arg
             incoming == {m[r.path] : r \in other.file}
             held == {r.path : r \in this.file}
         IN  /\ (\E f \in incoming \cap held :
                    IncomingTracers(other, m, f) # {RecordedTracer(this, f)})
                   => last'.err = TracerConflict
             /\ (\A f \in incoming : IncomingTracers(other, m, f) = {RecordedTracer(this, f)})
                   => last'.err # TracerConflict
             /\ last'.err = Ok =>
                   \A f \in incoming :
                       file_tracer(stores'[n], f).ret \in IncomingTracers(other, m, f)]_vars

\* The paths that have a row in the file table of the data file.
FileRows(db) == {r.path : r \in db.file}

\* C11: under every query context, lines(file) and arcs(file) return None
\* exactly for the files the store holds no file row for; a file the store
\* holds, with or without observations under the filter, gets a list.
C11_NoneIffNeverReferenced ==
    \A n \in Stores : \A f \in Paths : \A c \in ContextNames :
        LET q == set_query_context(stores[n], c)
        IN  /\ lines(q, f).ret.measured = (f \in FileRows(q.db))
            /\ arcs(q, f).ret.measured = (f \in FileRows(q.db))

\* Pattern occurs in name: name is some characters, then pattern, then some
\* characters.
Letters == {"u", "t"}
Affixes == UNION {[1..k -> Letters] : k \in 0..2}
Contains(pattern, name) ==
    \E pre \in Affixes : \E post \in Affixes :
        Chars(name) = pre \o Chars(pattern) \o post

\* The context names a set_query_contexts argument asks for: all of them for
\* None and for the empty list.
Asked(contexts) ==
    IF contexts.is_none \/ contexts.list = <<>> THEN QueryNames
    ELSE {c \in QueryNames : \E i \in 1..Len(contexts.list) : Contains(contexts.list[i], c)}

\* C12: right after set_query_contexts(patterns), lines(file) is the union of
\* the lines recorded under each context whose name contains one of the
\* patterns; after set_query_contexts(None) or set_query_contexts([]) it is
\* the union of the lines of all contexts.
C12_QueryContextsBySearch ==
    \A n \in Stores : (last.store = n /\ last.op = "set_query_contexts") =>
        \A f \in Paths :
            /\ lines(stores[n], f).ret.measured = AllLines(stores[n], f).measured
            /\ lines(stores[n], f).ret.data =
                  UNION {LinesIn(stores[n], f, c).data : c \in Asked(last.arg)}

\* C12 witness: the pattern "u" has selected the lines of context "ut", which
\* it is a proper part of, out of the lines of two contexts.
C12_Witness ==
    /\ last.op = "set_query_contexts" /\ last.arg = Patterns(<<"u">>)
    /\ lines(stores["A"], "a.py").ret.data = {9}
    /\ AllLines(stores["A"], "a.py").data = {1, 2, 9}
    /\ LinesIn(stores["A"], "a.py", "ut").data = {9}

\* C13: as long as the selector of a store is the one set_query_context(name)
\* gave it, lines, arcs and contexts_by_lineno return what they return right
\* after selecting name anew, the data of the rows whose context is named
\* name, whatever add_lines, add_arcs, update and erase calls came between.
C13_QueryContextPersists ==
    \A n \in Stores : (hist[n].query.set /\ hist[n].query.exact) =>
        \A f \in Paths :
            /\ lines(stores[n], f).ret = LinesIn(stores[n], f, hist[n].query.names[1])
            /\ arcs(stores[n], f).ret = ArcsIn(stores[n], f, hist[n].query.names[1])
            /\ contexts_by_lineno(stores[n], f).ret =
                  contexts_by_lineno(
                      set_query_context(stores[n], hist[n].query.names[1]), f).ret

\* What C14 compares: measured_files(), has_arcs(), measured_contexts(), and
\* the lines, arcs and tracer name of every file.
Snapshot(s) ==
    [files |-> measured_files(s),
     has_arcs |-> has_arcs(s),
     contexts |-> measured_contexts(s).ret,
     lines |-> [f \in Paths |-> AllLines(s, f)],
     arcs |-> [f \in Paths |-> arcs(s, f).ret],
     tracers |-> [f \in Paths |-> file_tracer(s, f).ret]]

\* C14: after a new, empty store has loaded what dumps returned on another
\* store, the two stores have the same measured files, has_arcs(), measured
\* contexts, and lines, arcs and tracer name of every file.
C14_DumpsLoadsEquivalent ==
    (last.op = "loads" /\ last.arg.marker = "z") =>
        /\ last.err = Ok
        /\ Snapshot(stores[last.store]) = Snapshot(stores[last.other])

\* C15: loads of a byte string that does not start with the marker raises
\* the serialization error and leaves the receiving store, its data file, its
\* connection and its attributes, as they were.
C15_LoadsRejectsBadMarker ==
    [][(steps' # steps /\ last'.op = "loads" /\ last'.arg.marker # "z") =>
          /\ last'.err = SerializationError
          /\ stores' = stores]_vars

\* C15 witness: a store that holds data and is connected was given bytes
\* without the marker.
C15_Witness ==
    /\ last.op = "loads" /\ last.err = SerializationError
    /\ stores[last.store].db.file # {}
    /\ stores[last.store].obj.dbs

\* The data file named filename after a call that left the store as s, when
\* it was before before the call: a call touches the file of its object only.
FileNamed(s, filename, before) == IF s.obj.filename = filename THEN s.db ELSE before

\* The files named in the argument of add_lines or add_arcs.
FilesOf(data) == {data[i].file : i \in 1..Len(data)}

\* C16: the first add_lines or add_arcs that the child makes after a fork,
\* on a store with a literal, no or generated suffix that had a data file
\* at the fork, leaves that data file as it was, and when it succeeds the
\* measured files of the child are the files of that call.
C16_ForkLeavesParentStore ==
    [][\A n \in Stores :
         (/\ last.op = "fork"
          /\ ~stores[n].obj.no_disk /\ stores[n].db.exists
          /\ (Called(n, "add_lines") \/ Called(n, "add_arcs"))) =>
            /\ FileNamed(stores'[n], stores[n].obj.filename, stores[n].db) = stores[n].db
            /\ last'.err = Ok => measured_files(stores'[n]) = FilesOf(last'.arg)]_vars

\* Thread t is in the body of a locked method, the exit of the block included.
InBody(t) == threads[t].pc \in {"body", "row", "done"}

\* C17: at most one thread at a time is in the body of add_lines, add_arcs,
\* set_context or add_file_tracers of a store, and the lock of the store is owned by exactly
\* the thread that is in a body: it is held from the entry to the exit of the
\* call and released on every exit, by return or by an error.
C17_OneThreadInBody ==
    /\ \A t \in Threads : \A u \in Threads : (InBody(t) /\ InBody(u)) => t = u
    /\ \A t \in Threads : InBody(t) <=> stores["A"].obj.lock.owner = t

\* C17 witness: after a call has raised and returned the lock, one thread is
\* in the middle of add_lines while the other waits for the lock.
C17_Witness ==
    /\ last.err \in ModeConflicts \cup {TracerConflict}
    /\ \E t \in Threads : \E u \in Threads :
          threads[t].pc = "row" /\ threads[u].pc = "waiting"

\* No thread is in a call.
Quiet == \A t \in Threads : threads[t].pc = "idle"

\* C18: when the threads of a process have called add_lines and set_context
\* on a disk-backed store, in any interleaving, and all the calls have
\* returned, lines(file) is for every file the union of the line sets all
\* the threads passed for it, whichever thread asks, and every file has one
\* row.
C18_ThreadsLoseNoLine ==
    (Quiet /\ ~stores["A"].obj.no_disk /\ hist["A"].pure) =>
        /\ \A t \in Threads : \A f \in Paths :
              AllLines(View(t), f).data = AddedFor(hist["A"], f)
        /\ \A f \in Paths :
              Cardinality({r \in stores["A"].db.file : r.path = f}) <= 1

\* C18 witness: both threads have added lines to one file of a disk-backed
\* store, one of them after a set_context, and the calls have returned.
C18_Witness ==
    /\ Quiet /\ ~stores["A"].obj.no_disk /\ hist["A"].pure
    /\ threads["t1"].op = "add_lines" /\ threads["t2"].op = "add_lines"
    /\ threads["t1"].arg # threads["t2"].arg
    /\ hist["A"].added[<<"a.py", "t">>] # {}
    /\ AddedFor(hist["A"], "a.py") = {1, 2, 9}

\* C19: in an in-memory store, once the calls have returned, what the
\* threads of the process wrote with add_lines and add_arcs is what lines,
\* arcs and measured_contexts return in every thread: the lines of a file are
\* the union of the sets added for it, and all threads get the same lines,
\* arcs and contexts.
C19_InMemoryStoreIsShared ==
    (Quiet /\ stores["A"].obj.no_disk) =>
        \A t \in Threads :
            /\ hist["A"].pure =>
                  \A f \in Paths : AllLines(View(t), f).data = AddedFor(hist["A"], f)
            /\ \A u \in Threads :
                  /\ measured_contexts(View(t)).ret = measured_contexts(View(u)).ret
                  /\ \A f \in Paths :
                        /\ AllLines(View(t), f) = AllLines(View(u), f)
                        /\ arcs(View(t), f).ret = arcs(View(u), f).ret

\* C20: after erase(), on a disk-backed and on an in-memory store alike,
\* measured_files() and measured_contexts() are empty and lines(f) and
\* arcs(f) return None for every file; and after the add_lines that follows
\* an erase the lines of every file are the lines of that call, with nothing
\* of what was recorded before the erase.
C20_EraseDiscardsAll ==
    [][\A n \in Stores :
         /\ Called(n, "erase") =>
               /\ measured_files(stores'[n]) = {}
               /\ measured_contexts(stores'[n]).ret = {}
               /\ \A f \in Paths :
                     /\ ~AllLines(stores'[n], f).measured
                     /\ ~arcs(stores'[n], f).ret.measured
         /\ (last.op = "erase" /\ Called(n, "add_lines") /\ last'.err = Ok) =>
               \A f \in Paths :
                   AllLines(stores'[n], f).data =
                       UNION {last'.arg[i].nums :
                                i \in {j \in 1..Len(last'.arg) : last'.arg[j].file = f}}]_vars

\* The mode of a store as its object reports it; a store in neither mode has
\* neither attribute set.
Mode(s) == [lines |-> s.obj.has_lines, arcs |-> has_arcs(s)]
Neither == [lines |-> FALSE, arcs |-> FALSE]

\* C21: the mode of a store stays what the first successful write made it
\* through every call but erase (and the replacement of the object); after
\* erase() has_arcs() is false and the store is in neither mode, and the
\* add_lines or add_arcs that follows an erase succeeds and makes its kind
\* the mode.
C21_ModeUntilErase ==
    [][\A n \in Stores :
         /\ (/\ steps' # steps /\ last'.store = n /\ last'.op \notin {"erase", "read"}
             /\ Mode(stores[n]) # Neither)
               => Mode(stores'[n]) = Mode(stores[n])
         /\ Called(n, "erase") => Mode(stores'[n]) = Neither
         /\ (last.op = "erase" /\ Called(n, "add_lines"))
               => (last'.err = Ok /\ Mode(stores'[n]) = [lines |-> TRUE, arcs |-> FALSE])
         /\ (last.op = "erase" /\ Called(n, "add_arcs"))
               => (last'.err = Ok /\ Mode(stores'[n]) = [lines |-> FALSE, arcs |-> TRUE])]_vars

\* A new CoverageData object on the data file of store s, after read().
Reread(s) == read(St(__init__(FALSE, getpid), s.db))

\* C22: whenever add_lines (add_arcs) has committed to a disk-backed store
\* since it was created or last erased, the meta table of the data file holds
\* has_arcs = "0" ("1"), and a new object that reads the file reports that
\* has_arcs() and rejects add_arcs (add_lines); also for data written after
\* an erase.
C22_ModePersisted ==
    \A n \in Stores : ~stores[n].obj.no_disk =>
        /\ "lines" \in hist[n].wrote =>
              /\ HasArcsFlag(stores[n].db) = {"0"}
              /\ ~has_arcs(Reread(stores[n]))
              /\ \A d \in ArcData : add_arcs(Reread(stores[n]), d).err \in ModeConflicts
        /\ "arcs" \in hist[n].wrote =>
              /\ HasArcsFlag(stores[n].db) = {"1"}
              /\ has_arcs(Reread(stores[n]))
              /\ \A d \in LineData : add_lines(Reread(stores[n]), d).err \in ModeConflicts

\* The names of a list of file names.
Named(filenames) == {filenames[i] : i \in 1..Len(filenames)}

\* C23: purge_files(names) on a store with a mode (a write has committed since
\* it was created or last erased) succeeds, leaves lines(f) and arcs(f) empty
\* but not None for every named measured file, leaves measured_files(),
\* measured_contexts() and the lines and arcs of every file not named as they
\* were, and skips the names that are not measured; on a store with no mode
\* it raises and changes nothing.
C23_PurgeFiles ==
    [][\A n \in Stores : Called(n, "purge_files") =>
         /\ Found(n).wrote = {} =>
               (last'.err = EmptyPurge /\ Content(stores'[n]) = Content(stores[n]))
         /\ Found(n).wrote # {} =>
               /\ last'.err = Ok
               /\ \A f \in Named(last'.arg) \cap measured_files(stores[n]) :
                     /\ AllLines(stores'[n], f) = Measured({})
                     /\ arcs(stores'[n], f).ret = Measured({})
               /\ measured_files(stores'[n]) = measured_files(stores[n])
               /\ measured_contexts(stores'[n]).ret = measured_contexts(stores[n]).ret
               /\ \A f \in Paths \ Named(last'.arg) : \A c \in ContextNames :
                     /\ LinesIn(stores'[n], f, c) = LinesIn(stores[n], f, c)
                     /\ ArcsIn(stores'[n], f, c) = ArcsIn(stores[n], f, c)]_vars

\* C24: touch_files(names) on a store with a mode (a write has committed since
\* it was created or last erased) leaves the lines and arcs of every measured
\* file as they were and, when it returns normally, has made every named file
\* a measured file, with an empty list of lines for a file it added; on a
\* store with no mode it raises and adds no file.
C24_TouchFiles ==
    [][\A n \in Stores : Called(n, "touch_files") =>
         /\ Found(n).wrote = {} =>
               /\ last'.err = EmptyTouch
               /\ measured_files(stores'[n]) = measured_files(stores[n])
         /\ Found(n).wrote # {} =>
               /\ last'.err # EmptyTouch
               /\ last'.err = Ok =>
                     \A f \in Named(last'.arg.filenames) :
                         /\ f \in measured_files(stores'[n])
                         /\ f \notin measured_files(stores[n]) =>
                               AllLines(stores'[n], f) = Measured({})
               /\ \A f \in measured_files(stores[n]) : \A c \in ContextNames :
                     /\ LinesIn(stores'[n], f, c) = LinesIn(stores[n], f, c)
                     /\ ArcsIn(stores'[n], f, c) = ArcsIn(stores[n], f, c)]_vars

\* The data file a complete call op(data) leaves on store s.
Completed(s, op, data) ==
    IF op = "add_lines" THEN add_lines(s, data).db ELSE add_arcs(s, data).db

\* C25: when the process is killed at any point of an add_lines or add_arcs
\* call on a disk-backed store, the rows the data file holds afterwards (mode
\* flag, contexts, files, line and arc records) are either the rows it held
\* before the call, or the rows the complete call leaves.
C25_WriteIsAtomic ==
    [][\A n \in Stores : Called(n, "crash") =>
         dump(stores'[n].db) \in
            {dump(stores[n].db), dump(_start_using(stores[n]).db),
             dump(Completed(stores[n], last'.arg.op, last'.arg.data))}]_vars

\* C26: in every state bool(store) is true exactly when measured_files() is
\* not empty, that is when at least one file is recorded in the store, on
\* disk-backed and in-memory stores.
C26_BoolIffFiles ==
    \A n \in Stores : __bool__(stores[n]).ret = (measured_files(stores[n]) # {})

\* The public methods that read or write the store.
StorageOps == {"add_lines", "add_arcs", "erase", "read", "dumps", "__bool__",
               "measured_files", "measured_contexts"}

\* C27: every call of a method that reads or writes the store, made in a
\* process other than the one the object recorded, performs the reset of
\* _start_using before anything else: when the call is over the object
\* records the id of the running process.
C27_PidCheckedFirst ==
    [][\A n \in Stores :
         (/\ steps' # steps /\ last'.store = n /\ last'.op \in StorageOps
          /\ stores[n].obj.pid # getpid)
         => stores'[n].obj.pid = getpid]_vars

\* contexts_by_lineno(filename) with no query filter, as (lineno, context) pairs.
ByLineno(s, filename) ==
    contexts_by_lineno(St([s.obj EXCEPT !.query_context_ids = [set |-> FALSE, ids |-> {}]],
                          s.db), filename).ret

\* The lines a call of add_lines passes for filename, and the positive
\* endpoints of the arcs a call of add_arcs passes for it.
LinesFor(line_data, filename) ==
    UNION {line_data[i].nums : i \in {j \in 1..Len(line_data) : line_data[j].file = filename}}
EndsFor(arc_data, filename) ==
    {l \in UNION {{a[1], a[2]} : a \in
            UNION {arc_data[i].arcs : i \in {j \in 1..Len(arc_data) : arc_data[j].file = filename}}} :
        l > 0}

\* The line numbers a successful write adds for filename.
AddedBy(call, filename) ==
    IF call.op = "add_lines" THEN LinesFor(call.arg, filename) ELSE EndsFor(call.arg, filename)

\* C28: a successful add_lines or add_arcs adds, for each file, its line numbers
\* (the lines, or the positive endpoints of the arcs) to contexts_by_lineno
\* under the context the latest set_context named ("" for None and when none
\* was set) and under no other, and leaves the other entries as they were;
\* set_context changes neither contexts_by_lineno nor measured_contexts(), and
\* a successful write adds the current context, and nothing else, to
\* measured_contexts().
C28_AttributedToCurrentContext ==
    [][\A n \in Stores :
         /\ ((Called(n, "add_lines") \/ Called(n, "add_arcs")) /\ last'.err = Ok) =>
               /\ \A f \in Paths :
                     ByLineno(stores'[n], f) =
                        ByLineno(stores[n], f) \cup
                        {<<l, ContextName(stores[n].obj.current_context)>> :
                            l \in AddedBy(last', f)}
               /\ measured_contexts(stores'[n]).ret =
                     measured_contexts(stores[n]).ret
                        \cup {ContextName(stores[n].obj.current_context)}
         /\ Called(n, "set_context") =>
               /\ stores'[n].db = stores[n].db
               /\ measured_contexts(stores'[n]).ret = measured_contexts(stores[n]).ret
               /\ \A f \in Paths : ByLineno(stores'[n], f) = ByLineno(stores[n], f)]_vars

\* C29: in every state, on every object (one constructed over an existing
\* data file and not read included), each of lines, arcs, contexts_by_lineno,
\* measured_contexts, file_tracer, set_query_context and set_query_contexts
\* leaves the rows of the data file (mode flag, files, contexts, line and arc
\* records, tracers) as they are.
C29_QueriesChangeNothing ==
    \A n \in Stores :
        /\ \A f \in Paths :
              /\ dump(lines(stores[n], f).db) = dump(stores[n].db)
              /\ dump(arcs(stores[n], f).db) = dump(stores[n].db)
              /\ dump(contexts_by_lineno(stores[n], f).db) = dump(stores[n].db)
              /\ dump(file_tracer(stores[n], f).db) = dump(stores[n].db)
        /\ dump(measured_contexts(stores[n]).db) = dump(stores[n].db)
        /\ \A c \in ContextNames :
              dump(set_query_context(stores[n], c).db) = dump(stores[n].db)
        /\ \A p \in QueryPatterns :
              dump(set_query_contexts(stores[n], p).db) = dump(stores[n].db)

\* C30: update(other), whether it returns or raises, leaves the rows of the
\* data file of other (mode flag, files, contexts, line and arc records,
\* tracers) as they were, and when the object other was in use before the
\* call, also what its methods return: measured files, contexts, lines, arcs,
\* tracer names and mode.
C30_UpdateOnlyReadsOther ==
    [][\A n \in Stores : Called(n, "update") =>
         /\ dump(stores'[last'.other].db) = dump(stores[last'.other].db)
         /\ stores[last'.other].obj.have_used =>
               Content(stores'[last'.other]) = Content(stores[last'.other])]_vars

\* C30 witness: an update has failed on a tracer conflict with a store that
\* holds files, lines and tracers, read by an object made for the merge.
C30_Witness ==
    /\ last.op = "update" /\ last.err = TracerConflict
    /\ stores[last.other].db.line_bits # {}
    /\ stores[last.other].db.tracer # {}
    /\ hist[last.other].wrote = {"lines"}

\* C31: add_file_tracers({f: P}) with a non-empty P, on a store where f is
\* measured and file_tracer(f) is "", returns normally and leaves
\* file_tracer(f) = P, also when f came into the store through update.
C31_TracerOfUntracedFile ==
    [][\A n \in Stores :
         (/\ Called(n, "add_file_tracers")
          /\ Len(last'.arg) = 1
          /\ last'.arg[1].plugin # ""
          /\ TracerBefore(n, last'.arg[1].file) = "")
         => /\ last'.err = Ok
            /\ file_tracer(stores'[n], last'.arg[1].file).ret = last'.arg[1].plugin]_vars


\* ---------------------------------------------------------------------------
\* Empty mappings and empty collections given to add_lines and add_arcs.
MaxEmptySteps == 4

EmptyLines == {<<>>, <<Item("a.py", {})>>, <<Item("a.py", {1}), Item("b.py", {})>>}
EmptyArcs == {<<>>, <<ArcItem("a.py", {})>>,
              <<ArcItem("a.py", {<<1, 2>>}), ArcItem("b.py", {})>>}

NextEmpty ==
    /\ steps < MaxEmptySteps
    /\ \/ AddLines("A", EmptyLines)
       \/ AddArcs("A", EmptyArcs)
       \/ SetContext("A", {"t"})
       \/ Erase("A")
       \/ Reopen("A")

SpecEmpty == Init /\ [][NextEmpty]_vars

\* The mode a call of op commits a store to.
ModeOf(op) == [lines |-> op = "add_lines", arcs |-> op = "add_arcs"]

\* C32: after add_lines or add_arcs has returned normally, every file named by
\* the mapping is in measured_files(), also a file given with no lines or no
\* arcs; and with an empty mapping a store that had no mode has the mode of
\* the call.
C32_EveryKeyIsMeasured ==
    [][\A n \in Stores : \A op \in {"add_lines", "add_arcs"} :
         (Called(n, op) /\ last'.err = Ok)
         => /\ \A i \in 1..Len(last'.arg) :
                  last'.arg[i].file \in measured_files(stores'[n])
            /\ (Len(last'.arg) = 0 /\ Mode(stores[n]) = Neither)
                  => Mode(stores'[n]) = ModeOf(op)]_vars


\* C33: no deadlock.  Under a fair scheduler every call a thread has made of
\* add_lines, add_arcs, set_context, add_file_tracers or touch_files returns
\* or raises, also when another thread's call raised inside the lock.
C33_EveryCallEnds ==
    \A t \in Threads : (threads[t].pc # "idle") ~> (threads[t].pc = "idle")

\* C33 witness: a thread inside the transaction of touch_files waits for the
\* lock while the call of the other thread has raised and still holds it.
C33_Witness ==
    \E t \in Threads : \E u \in Threads \ {t} :
        /\ threads[t].op = "touch_files" /\ threads[t].pc = "waiting"
        /\ threads[u].pc = "done" /\ threads[u].err # Ok
        /\ stores["A"].obj.lock.owner = u

=============================================================================
